---- MODULE Spec2Model ----
(***************************************************************************)
(* Model of the AArch32 macro-assembler's pool bookkeeping                 *)
(* (src/src/a32/macro-assembler-a32.h): the literal pool and its manager,  *)
(* the veneer pool manager, the assembler checkpoint and the emission      *)
(* guard EnsureEmitFor, the speculative literal load GenerateInstruction,  *)
(* the conditional-execution helper ITScope, FinalizeCode, the recursion   *)
(* guard of ContextScope and the jump table.                               *)
(*                                                                         *)
(* The handlers are written as operators from an assembler state (a record *)
(* of the fields of MacroAssembler and of its managers) to the state after *)
(* the call, so that a handler that calls another one is the composition   *)
(* of the two.  Each action of the next-state relation is one public entry *)
(* point of MacroAssembler, run to completion.                             *)
(*                                                                         *)
(* The raw encoder, the code buffer, Label and RawLiteral are collaborators*)
(* declared outside macro-assembler-a32.h; so are the bodies of            *)
(* ComputeCheckpoint, PerformEnsureEmit, VeneerPoolManager::RemoveLabel    *)
(* and VeneerPoolManager::Emit, and of Switch, Case, Default and          *)
(* EndSwitch.  They are modelled from the design description (spec.md      *)
(* sections 3, 4.1-4.6 and 6).                                             *)
(***************************************************************************)
EXTENDS Integers, Sequences, FiniteSets, TLC

VARIABLES
  t32,            \* IsT32(): the instruction set in use (fixed per run)
  cursor,         \* GetCursorOffset()
  pool,           \* LiteralPool::literals_ (insertion order)
  size_,          \* LiteralPool::size_
  lp_checkpoint,  \* LiteralPoolManager::checkpoint_
  labels,         \* the Label objects of the program being assembled
  veneer_labels,  \* VeneerPoolManager::labels_
  vp_checkpoint,  \* VeneerPoolManager::checkpoint_
  checkpoint_,    \* MacroAssembler::checkpoint_
  nlit,           \* number of Literal objects created so far
  count_,         \* MacroAssemblerContext::count_
  scopes,         \* the live ContextScope objects, innermost last: for each,
                  \* the count its constructor found
  aborted,        \* a VIXL_CHECK failed: the process is gone
  table,          \* the JumpTable object of the program, and its slots in the
                  \* buffer
  available_,     \* MacroAssembler::available_: the core scratch registers
  available_vfp_, \* MacroAssembler::available_vfp_: the VFP scratch registers
  temps,          \* the live UseScratchRegisterScope objects, in order of construction
  allow_macro_instructions_, \* MacroAssembler::allow_macro_instructions_ (debug build)
  accurate,       \* the live AssemblerAccurateScope objects, innermost last
  keep_until_delete_, \* LiteralPool::keep_until_delete_: placed literals the pool destroys with itself
  deleted,        \* how many times each literal has been deleted
  destroyed,      \* whether the LiteralPool has been destroyed
  bound_literals, \* the literals that are bound (a RawLiteral is a Label)
  out,            \* what the last entry point left in the buffer, in order
  placed,         \* the literals the last entry point placed
  links,          \* the forward references the last entry point resolved
  last            \* what the last entry point was and what it decided

vars == <<t32, cursor, pool, size_, lp_checkpoint, labels, veneer_labels,
          vp_checkpoint, checkpoint_, nlit, count_, scopes, aborted,
          table, available_,
          available_vfp_,
          temps,
          allow_macro_instructions_,
          accurate,
          keep_until_delete_,
          deleted,
          destroyed,
          bound_literals,
          out, placed, links, last>>

(***************************************************************************)
(* Bounds of the model.                                                    *)
(***************************************************************************)
\* Entry points are taken while the cursor is at most MaxCursor.
MaxCursor == 24
\* Number of literals the program loads.
MaxLits == 2
\* Pending forward references a label may hold when one more is added.
MaxRefs == 2
\* Shortest forward range (in bytes) an encoding of the model offers.
MinRange == 12
\* Number of AssemblerAccurateScope objects alive at once.
MaxAccurate == 2
\* Number of UseScratchRegisterScope objects alive at once.
MaxScopes == 2
\* Number of cases of the jump table.
MaxCases == 2
\* Number of runs of instructions around the dispatch and its cases.
MaxBodies == 2
\* Literal objects the program constructs itself.
MaxUser == 3
\* Literals the program adds to the pool itself while the pool holds fewer
\* than MaxPool.
MaxPool == 3
\* Loads of a program that only loads constants.
MaxLoads == 8

(***************************************************************************)
(* Program constants.                                                      *)
(***************************************************************************)
kMaxInstructionSizeInBytes == 4
k16BitT32InstructionSizeInBytes == 2
\* Most bytes one macro instruction wrapped by an ITScope may take.
kMaxT32MacroInstructionSizeInBytes == 8
kMaxOffset == 2147483647
\* MacroAssemblerContext::kMaxRecursion
kMaxRecursion == 5
\* Forward range of the unconditional branch used as a veneer.
kVeneerRange == 16777214

Min(a, b) == IF a < b THEN a ELSE b
AlignUp(x, a) == ((x + a - 1) \div a) * a
AlignDown(x, a) == (x \div a) * a

\* GetArchitectureStatePCOffset(): the PC reads 4 bytes ahead in T32 and 8
\* bytes ahead in A32.
PcOffset(isT32) == IF isT32 THEN kMaxInstructionSizeInBytes
                   ELSE 2 * kMaxInstructionSizeInBytes

\* Sizes of one encoded instruction.
InstrSizes(isT32) == IF isT32 THEN {k16BitT32InstructionSizeInBytes,
                                    kMaxInstructionSizeInBytes}
                     ELSE {kMaxInstructionSizeInBytes}
\* Forward ranges of the literal loads and of the branches on offer.
LiteralRanges == {MinRange, MinRange + 8}
BranchRanges == {MinRange + 2}
\* Byte sizes of the literals (a word, a string of 12 bytes).
LiteralSizes == {4, 12}
\* The labels of the program.
LabelIds == {1}
\* The Label objects that exist; the second one is used by the programs that
\* exercise the veneer pool alone.
AllLabelIds == {1, 2}

EmitOptions == {"kBranchRequired", "kNoBranchRequired"}

\* Conditions: al, and eq for every condition that is not al.
Conds == {"al", "eq"}
\* Condition::Negate()
Negate(cond) == IF cond = "eq" THEN "ne" ELSE IF cond = "ne" THEN "eq" ELSE cond
\* Forward range of the narrow conditional branch of T32.
NarrowRange == MinRange

(***************************************************************************)
(* The assembler state the handlers work on.  out, placed, links and trace *)
(* are the record of the entry point in progress: the items it appended to *)
(* the buffer, the literals it placed, the forward references it resolved  *)
(* and the decisions it took.                                              *)
(***************************************************************************)
St == [t32 |-> t32, cursor |-> cursor, pool |-> pool, size_ |-> size_,
       lp_checkpoint |-> lp_checkpoint, labels |-> labels,
       veneer_labels |-> veneer_labels, vp_checkpoint |-> vp_checkpoint,
       checkpoint_ |-> checkpoint_,
       count_ |-> count_, scopes |-> scopes, aborted |-> aborted,
       table |-> table,
       available_ |-> available_,
       available_vfp_ |-> available_vfp_,
       temps |-> temps,
       allow_macro_instructions_ |-> allow_macro_instructions_,
       accurate |-> accurate,
       keep_until_delete_ |-> keep_until_delete_,
       deleted |-> deleted,
       destroyed |-> destroyed,
       bound_literals |-> bound_literals,
       out |-> <<>>, placed |-> {}, links |-> {}, trace |-> <<>>,
       cond |-> "al", it_scope |-> <<>>]

\* Lengths, in instructions, of the runs of instructions around the dispatch
\* and its cases: one instruction, or 512 bytes of them.
BodyRuns == {1, 128}

\* Label::Label(): unbound, no forward reference, no checkpoint.
NewLabel == [bound |-> FALSE, in_veneer_pool |-> FALSE,
             checkpoint |-> kMaxOffset, refs |-> <<>>]

\* RawLiteral::DeletionPolicy
DeletionPolicies ==
  {"kDeletedOnPlacementByPool", "kDeletedOnPoolDestruction", "kManuallyDeleted"}

\* The literals of the program: those of Ldr, Ldrd and Vldr, numbered in
\* order of creation, and those the program constructs itself.
UserLitIds == 101..(100 + MaxUser)
LitIds == (1..MaxLits) \cup (1..MaxLoads) \cup UserLitIds

\* Literal<T>(v, deletion_policy): a RawLiteral not yet in a pool.
Literal(id, bytes, deletion_policy) ==
  [id |-> id, size |-> bytes, position |-> kMaxOffset,
   checkpoint |-> kMaxOffset, refs |-> <<>>,
   deletion_policy |-> deletion_policy]

\* Literal<T>(v, kDeletedOnPlacementByPool): a RawLiteral not yet in a pool.
NewLiteral(id, bytes) == Literal(id, bytes, "kDeletedOnPlacementByPool")

\* RawLiteral::GetAlignedSize()
GetAlignedSize(literal) == AlignUp(literal.size, 4)

\* Label::ForwardReference::GetCheckpoint(): the last offset the referencing
\* instruction at loc can address, given the forward range of its encoding.
RefCheckpoint(isT32, loc, range) == loc + PcOffset(isT32) + range

\* Label::AddForwardRef, for a literal: the encoder records where the
\* referencing instruction is and how far it reaches.
AddLiteralForwardRef(isT32, literal, loc, range) ==
  [literal EXCEPT !.refs = Append(@, [loc |-> loc, range |-> range,
                                      checkpoint |-> RefCheckpoint(isT32, loc, range)])]

\* Label::GetLastInsertForwardDistance()
GetLastInsertForwardDistance(literal) ==
  IF literal.refs = <<>> THEN kMaxOffset
  ELSE literal.refs[Len(literal.refs)].range

\* Label::UpdateCheckpoint(): fold the newest forward reference in.
LiteralUpdateCheckpoint(literal) ==
  IF literal.refs = <<>> THEN literal
  ELSE [literal EXCEPT !.checkpoint =
          Min(@, literal.refs[Len(literal.refs)].checkpoint)]

\* Label::InvalidateLastForwardReference(kNoUpdateNecessary)
InvalidateLastForwardReference(literal) ==
  [literal EXCEPT !.refs = SubSeq(@, 1, Len(@) - 1)]

(***************************************************************************)
(* The code buffer and the raw encoder.                                    *)
(***************************************************************************)
Item(kind, off, bytes, id) == [kind |-> kind, off |-> off, size |-> bytes, id |-> id]

\* CodeBuffer: write bytes at the cursor; what was there before is overwritten.
Emit(s, kind, bytes, id) ==
  [s EXCEPT !.cursor = @ + bytes,
            !.out = Append(SelectSeq(@, LAMBDA it : \/ it.off + it.size <= s.cursor
                                                    \/ s.cursor + bytes <= it.off),
                           Item(kind, s.cursor, bytes, id))]

\* CodeBuffer::Rewind(offset): only the cursor goes back.
Rewind(s, offset) == [s EXCEPT !.cursor = offset]

\* CodeBuffer::Align(): pad with zeroes to a 32-bit boundary.
Align(s) ==
  IF s.cursor % 4 = 0 THEN s
  ELSE Emit(s, "pad", AlignUp(s.cursor, 4) - s.cursor, 0)

\* Log one decision of the entry point in progress.
Note(s, ev) == [s EXCEPT !.trace = Append(@, ev)]

\* One call of the raw encoder: one instruction at the cursor.
Encode(s, kind, bytes, id, cond) ==
  Note(Emit(s, kind, bytes, id), [ev |-> "encode", kind |-> kind, cond |-> cond])

(***************************************************************************)
(* LiteralPool                                                             *)
(***************************************************************************)
\* LiteralPool::GetSize()
GetSize(s) == s.size_

\* literal->SetPositionInPool(position)
Stamped(literal, position) == [literal EXCEPT !.position = position]

\* The list holds pointers: a literal that is in the list already is the
\* same object there and carries the new position there too.
Restamp(lits, stamped) ==
  [i \in DOMAIN lits |-> IF lits[i].id = stamped.id THEN stamped ELSE lits[i]]

\* AddLiteral that advances the size by the size of the payload.
PoolAddLiteral_RawSize(s, literal) ==
  CHOOSE after \in
    {[x EXCEPT !.pool = Append(Restamp(x.pool, Stamped(literal, GetSize(x))),
                               Stamped(literal, GetSize(x))),
               !.size_ = @ + literal.size] : x \in {s}} : TRUE

\* LiteralPool::AddLiteral: stamp the position, append, advance the size.
\* (x is the state s, evaluated once.)
PoolAddLiteral(s, literal) ==
  CHOOSE after \in
    {[x EXCEPT !.pool = Append(Restamp(x.pool, Stamped(literal, GetSize(x))),
                               Stamped(literal, GetSize(x))),
               !.size_ = @ + GetAlignedSize(literal)] : x \in {s}} : TRUE

\* delete literal
Delete(s, literal) == [s EXCEPT !.deleted[literal.id] = @ + 1]

\* The loop of LiteralPool::Clear from the i-th literal on: the switch on
\* the deletion policy.
RECURSIVE ClearFrom(_, _)
ClearFrom(s, i) ==
  IF i > Len(s.pool) THEN s
  ELSE LET literal == s.pool[i]
       IN  CASE literal.deletion_policy = "kDeletedOnPlacementByPool" ->
                  ClearFrom(Delete(s, literal), i + 1)
             [] literal.deletion_policy = "kDeletedOnPoolDestruction" ->
                  ClearFrom([s EXCEPT !.keep_until_delete_ = Append(@, literal.id)],
                            i + 1)
             [] OTHER -> ClearFrom(s, i + 1)

\* Clear that deletes every literal.
Clear_DeletesAll(s) ==
  LET RECURSIVE All(_, _)
      All(s1, i) == IF i > Len(s.pool) THEN s1
                    ELSE All(Delete(s1, s.pool[i]), i + 1)
  IN  [All(s, 1) EXCEPT !.pool = <<>>, !.size_ = 0]

\* LiteralPool::Clear: every literal leaves the container (each is deleted or
\* kept according to its deletion policy), the size returns to 0.
Clear(s) ==
  CHOOSE after \in
    {[ClearFrom(x, 1) EXCEPT !.pool = <<>>, !.size_ = 0] : x \in {s}} : TRUE

\* LiteralPool::~LiteralPool() in a debug build: the assertion, then the
\* literals the pool was asked to keep are deleted.
RECURSIVE DeleteKept(_, _)
DeleteKept(s, i) ==
  IF i > Len(s.keep_until_delete_) THEN s
  ELSE DeleteKept([s EXCEPT !.deleted[s.keep_until_delete_[i]] = @ + 1], i + 1)

\* ~LiteralPool without the assertion.
LiteralPoolExit_NoAssert(s) ==
  Note([DeleteKept(s, 1) EXCEPT !.keep_until_delete_ = <<>>,
                                !.destroyed = TRUE],
       [ev |-> "~LiteralPool"])

\* LiteralPool::~LiteralPool()
LiteralPoolExit(s) ==
  IF ~(s.pool = <<>> /\ s.size_ = 0)
  THEN Note([s EXCEPT !.aborted = TRUE],
            [ev |-> "VIXL_ASSERT", literals |-> Len(s.pool), size |-> s.size_])
  ELSE Note([DeleteKept(s, 1) EXCEPT !.keep_until_delete_ = <<>>,
                                     !.destroyed = TRUE],
            [ev |-> "~LiteralPool"])

(***************************************************************************)
(* MacroAssembler::ComputeCheckpoint and the two managers' checkpoints     *)
(***************************************************************************)
\* LiteralPoolManager::GetCheckpoint(): room for a branch over the pools.
LiteralGetCheckpoint(s) == s.lp_checkpoint - kMaxInstructionSizeInBytes

\* VeneerPoolManager::GetCheckpoint(): room for a branch over the pools.
VeneerGetCheckpoint(s) == s.vp_checkpoint - kMaxInstructionSizeInBytes

\* MacroAssembler::ComputeCheckpoint(): the nearer of the two managers'
\* checkpoints (each already reduced by the branch-sized margin).
ComputeCheckpoint(s) ==
  Note([s EXCEPT !.checkpoint_ = Min(LiteralGetCheckpoint(s), VeneerGetCheckpoint(s))],
       [ev |-> "ComputeCheckpoint"])

(***************************************************************************)
(* LiteralPoolManager                                                      *)
(***************************************************************************)
\* ResetCheckpoint that keeps the cached checkpoint.
ResetCheckpoint_Keeps(s) == s

\* LiteralPoolManager::ResetCheckpoint()
ResetCheckpoint(s) == [s EXCEPT !.lp_checkpoint = kMaxOffset]

\* IsInsertTooFar without the size of the pool already queued.
IsInsertTooFar_IgnoresPool(s, literal, from) ==
  LET checkpoint == Min(from + GetLastInsertForwardDistance(literal),
                        literal.checkpoint)
  IN  AlignDown(checkpoint, 4) < from + kMaxInstructionSizeInBytes

\* IsInsertTooFar without the room for the branch over the pool.
IsInsertTooFar_NoMargin(s, literal, from) ==
  LET checkpoint == Min(from + GetLastInsertForwardDistance(literal),
                        literal.checkpoint)
  IN  AlignDown(checkpoint, 4) < from + GetSize(s)

\* LiteralPoolManager::IsInsertTooFar(literal, from).  The sums are uint32_t
\* in the code; from and the distance are both below 2^31, so none wraps.
IsInsertTooFar(s, literal, from) ==
  LET checkpoint == Min(from + GetLastInsertForwardDistance(literal),
                        literal.checkpoint)
  IN  AlignDown(checkpoint, 4) < from + GetSize(s) + kMaxInstructionSizeInBytes

\* Index in the pool of the literal with this id (0 when it is not there).
PoolIndex(s, id) ==
  IF \E i \in 1..Len(s.pool) : s.pool[i].id = id
  THEN CHOOSE i \in 1..Len(s.pool) : s.pool[i].id = id
  ELSE 0

\* UpdateCheckpoint that adopts the nearer checkpoint without recomputing.
UpdateCheckpoint_NoRecompute(s, held) ==
  IF held.position = kMaxOffset
  THEN Note([s EXCEPT !.aborted = TRUE],
            [ev |-> "VIXL_ASSERT", in |-> "UpdateCheckpoint", id |-> held.id])
  ELSE LET i == PoolIndex(s, held.id)
           literal == LiteralUpdateCheckpoint(held)
           tmp == AlignDown(literal.checkpoint, 4) - literal.position
           s1 == Note(IF i = 0 THEN s ELSE [s EXCEPT !.pool[i] = literal],
                      [ev |-> "UpdateCheckpoint", id |-> held.id,
                       before |-> s.lp_checkpoint])
       IN  IF s1.lp_checkpoint > tmp
           THEN [s1 EXCEPT !.lp_checkpoint = tmp]
           ELSE s1

\* UpdateCheckpoint that takes the literal's checkpoint as it is, unaligned.
UpdateCheckpoint_Unaligned(s, held) ==
  IF held.position = kMaxOffset
  THEN Note([s EXCEPT !.aborted = TRUE],
            [ev |-> "VIXL_ASSERT", in |-> "UpdateCheckpoint", id |-> held.id])
  ELSE LET i == PoolIndex(s, held.id)
           literal == LiteralUpdateCheckpoint(held)
           tmp == literal.checkpoint - literal.position
           s1 == Note(IF i = 0 THEN s ELSE [s EXCEPT !.pool[i] = literal],
                      [ev |-> "UpdateCheckpoint", id |-> held.id,
                       before |-> s.lp_checkpoint])
       IN  IF s1.lp_checkpoint > tmp
           THEN ComputeCheckpoint([s1 EXCEPT !.lp_checkpoint = tmp])
           ELSE s1

\* LiteralPoolManager::UpdateCheckpoint(literal): the literal must have a
\* position in the pool (a failed assertion otherwise, debug build); refresh
\* the literal's own checkpoint, adopt it when it is nearer than the cached
\* one and recompute.
UpdateCheckpoint(s, held) ==
  IF held.position = kMaxOffset
  THEN Note([s EXCEPT !.aborted = TRUE],
            [ev |-> "VIXL_ASSERT", in |-> "UpdateCheckpoint", id |-> held.id])
  ELSE LET i == PoolIndex(s, held.id)
           literal == LiteralUpdateCheckpoint(held)
           tmp == AlignDown(literal.checkpoint, 4) - literal.position
           s1 == Note(IF i = 0 THEN s ELSE [s EXCEPT !.pool[i] = literal],
                      [ev |-> "UpdateCheckpoint", id |-> held.id,
                       before |-> s.lp_checkpoint])
       IN  IF s1.lp_checkpoint > tmp
           THEN ComputeCheckpoint([s1 EXCEPT !.lp_checkpoint = tmp])
           ELSE s1

\* LiteralPoolManager::AddLiteral(literal)
AddLiteral(s, literal) == PoolAddLiteral(s, literal)

(***************************************************************************)
(* MacroAssembler::EmitLiteralPool                                         *)
(***************************************************************************)
\* Assembler::place(literal): the literal is bound at the cursor and its
\* data is written, padded to its aligned size.  Binding a literal that is
\* bound already is a failed assertion (debug build), which ends the
\* process.  (x is the state s, evaluated once.)
Place(s, literal, start) ==
  CHOOSE after \in
    {IF x.aborted THEN x
     ELSE IF literal.id \in x.bound_literals
     THEN Note([x EXCEPT !.aborted = TRUE],
               [ev |-> "VIXL_ASSERT", bound |-> literal.id])
     ELSE [Emit(x, "literal", GetAlignedSize(literal), literal.id)
             EXCEPT !.placed = @ \cup {[id |-> literal.id, offset |-> x.cursor,
                                        checkpoint |-> literal.checkpoint,
                                        start |-> start, refs |-> literal.refs,
                                        position |-> literal.position]},
                    !.bound_literals = @ \cup {literal.id}] : x \in {s}} : TRUE

\* The loop of EmitLiteralPool over the pool; nothing is placed once the
\* process has aborted.
RECURSIVE PlaceAll(_, _, _, _)
PlaceAll(s, lits, i, start) ==
  IF i > Len(lits) THEN s
  ELSE PlaceAll(Place(s, lits[i], start), lits, i + 1, start)

\* if (option == kBranchRequired) bind(&after_literal): the branch emitted
\* at offset from is patched to the cursor.
BindAfterLiteral(s, option, from) ==
  IF option = "kBranchRequired"
  THEN Note(s, [ev |-> "bind", label |-> "after_literal", from |-> from,
                target |-> s.cursor])
  ELSE s

\* The end of EmitLiteralPool, unless the process aborted on the way: the
\* branch is bound and the pool is cleared.
ClearPlaced(s, option, from) ==
  CHOOSE after \in
    {IF x.aborted THEN x
     ELSE Clear(Note(BindAfterLiteral(x, option, from),
                     [ev |-> "EmitLiteralPool", option |-> option])) : x \in {s}} :
    TRUE

\* EmitLiteralPool that does not align the cursor.
EmitLiteralPoolOf_NoAlign(s, option) ==
  IF GetSize(s) > 0
  THEN LET start == s.cursor
           s1 == IF option = "kBranchRequired"
                 THEN Encode(s, "b_after_literal", kMaxInstructionSizeInBytes, 0, "al")
                 ELSE s
           s3 == PlaceAll(s1, s.pool, 1, start)
       IN  ClearPlaced(s3, option, start)
  ELSE s

\* EmitLiteralPool that does not look at the size of the pool before it
\* emits the branch over it.
EmitLiteralPoolOf_NoSizeTest(s, option) ==
  LET start == s.cursor
      s1 == IF option = "kBranchRequired"
            THEN Encode(s, "b_after_literal", kMaxInstructionSizeInBytes, 0, "al")
            ELSE s
      s2 == Align(s1)
      s3 == PlaceAll(s2, s.pool, 1, start)
  IN  ClearPlaced(s3, option, start)

\* MacroAssembler::EmitLiteralPool(LiteralPool*, EmitOption)
EmitLiteralPoolOf(s, option) ==
  IF GetSize(s) > 0
  THEN LET start == s.cursor
           s1 == IF option = "kBranchRequired"
                 THEN Encode(s, "b_after_literal", kMaxInstructionSizeInBytes, 0, "al")
                 ELSE s
           s2 == Align(s1)
           s3 == PlaceAll(s2, s.pool, 1, start)
       IN  ClearPlaced(s3, option, start)
  ELSE s

\* EmitLiteralPool that forgets to reset the manager's checkpoint.
EmitLiteralPool_NoReset(s, option) ==
  ComputeCheckpoint(EmitLiteralPoolOf(s, option))

\* MacroAssembler::EmitLiteralPool(EmitOption)
EmitLiteralPool(s, option) ==
  ComputeCheckpoint(ResetCheckpoint(EmitLiteralPoolOf(s, option)))

(***************************************************************************)
(* Label and the raw encoder's label-operand instructions                  *)
(***************************************************************************)
\* Label::UpdateCheckpoint(): fold the newest forward reference in.
LabelUpdateCheckpoint(label) ==
  IF label.refs = <<>> THEN label
  ELSE [label EXCEPT !.checkpoint = Min(@, label.refs[Len(label.refs)].checkpoint)]

\* Assembler::b / bl / blx / cbz / cbnz / ldr / adr (..., Label*): one
\* instruction; towards an unbound label it leaves a forward reference,
\* towards a bound one (a backward reference) it is final at once.
EncodeLabelCond(s, l, kind, bytes, range, isVeneer, cond) ==
  LET s1 == Encode(s, kind, bytes, l, cond)
      ref == [loc |-> s.cursor, checkpoint |-> RefCheckpoint(s.t32, s.cursor, range),
              branch |-> FALSE, veneer |-> isVeneer]
  IN  IF s.labels[l].bound THEN s1
      ELSE Note([s1 EXCEPT !.labels[l].refs = Append(@, ref)],
                [ev |-> "AddForwardRef", label |-> l, checkpoint |-> ref.checkpoint])

\* The same, unconditional.
EncodeLabel(s, l, kind, bytes, range, isVeneer) ==
  EncodeLabelCond(s, l, kind, bytes, range, isVeneer, "al")

\* The forward references resolved to a target offset.
Resolved(l, refs, target, via) ==
  {[label |-> l, loc |-> refs[i].loc, checkpoint |-> refs[i].checkpoint,
    target |-> target, veneer |-> refs[i].veneer, via |-> via] : i \in DOMAIN refs}

\* Assembler::bind(label): the label is bound at the cursor and every pending
\* forward reference is patched to it; a bound label has no forward
\* reference and no checkpoint any more.
RawBind(s, l) ==
  [s EXCEPT !.labels[l] = [@ EXCEPT !.bound = TRUE, !.refs = <<>>,
                                    !.checkpoint = kMaxOffset],
            !.links = @ \cup Resolved(l, s.labels[l].refs, s.cursor, "bind")]

(***************************************************************************)
(* VeneerPoolManager                                                       *)
(***************************************************************************)
\* VeneerPoolManager::GetMaxSize()
GetMaxSize(s) == Len(s.veneer_labels) * kMaxInstructionSizeInBytes

\* AddLabel that adopts the nearer checkpoint without recomputing.
AddLabel_NoRecompute(s, l) ==
  LET s1 == IF ~s.labels[l].in_veneer_pool
            THEN [s EXCEPT !.labels[l].in_veneer_pool = TRUE,
                           !.veneer_labels = Append(@, l)]
            ELSE s
      n == Len(s1.labels[l].refs)
      back == [s1.labels[l] EXCEPT !.refs[n].branch = TRUE]
      label == LabelUpdateCheckpoint(back)
      tmp == label.checkpoint
      s2 == [s1 EXCEPT !.labels[l] = label]
  IN  IF s2.vp_checkpoint > tmp THEN [s2 EXCEPT !.vp_checkpoint = tmp] ELSE s2

\* AddLabel that appends the label whether or not it is already pending.
AddLabel_AppendsAlways(s, l) ==
  LET s1 == [s EXCEPT !.labels[l].in_veneer_pool = TRUE,
                      !.veneer_labels = Append(@, l)]
      n == Len(s1.labels[l].refs)
      back == [s1.labels[l] EXCEPT !.refs[n].branch = TRUE]
      label == LabelUpdateCheckpoint(back)
      tmp == label.checkpoint
      s2 == Note([s1 EXCEPT !.labels[l] = label],
                 [ev |-> "AddLabel", label |-> l, before |-> s.vp_checkpoint])
  IN  IF s2.vp_checkpoint > tmp
      THEN ComputeCheckpoint([s2 EXCEPT !.vp_checkpoint = tmp])
      ELSE s2

\* VeneerPoolManager::AddLabel(label)
AddLabel(s, l) ==
  LET s1 == IF ~s.labels[l].in_veneer_pool
            THEN [s EXCEPT !.labels[l].in_veneer_pool = TRUE,
                           !.veneer_labels = Append(@, l)]
            ELSE s
      n == Len(s1.labels[l].refs)
      back == [s1.labels[l] EXCEPT !.refs[n].branch = TRUE]
      label == LabelUpdateCheckpoint(back)
      tmp == label.checkpoint
      s2 == Note([s1 EXCEPT !.labels[l] = label],
                 [ev |-> "AddLabel", label |-> l, before |-> s.vp_checkpoint])
  IN  IF s2.vp_checkpoint > tmp
      THEN ComputeCheckpoint([s2 EXCEPT !.vp_checkpoint = tmp])
      ELSE s2

RECURSIVE MinCheckpoint(_, _)
\* The nearest checkpoint of the labels of a list (kMaxOffset when empty).
MinCheckpoint(s, ls) ==
  IF ls = <<>> THEN kMaxOffset
  ELSE Min(s.labels[Head(ls)].checkpoint, MinCheckpoint(s, Tail(ls)))

\* VeneerPoolManager::RemoveLabel(label): the label leaves the pending list
\* and the cached checkpoint is that of the labels that stay; nothing
\* happens for a label that is not in the list.
RemoveLabel(s, l) ==
  IF ~(\E i \in DOMAIN s.veneer_labels : s.veneer_labels[i] = l) THEN s
  ELSE LET rest == SelectSeq(s.veneer_labels, LAMBDA x : x # l)
           s1 == [s EXCEPT !.veneer_labels = rest,
                           !.labels[l].in_veneer_pool = FALSE]
       IN  ComputeCheckpoint([s1 EXCEPT !.vp_checkpoint = MinCheckpoint(s1, rest)])

\* One veneer: the range-limited branches to the label are redirected to the
\* cursor, where a full-range branch to the label is emitted; the label stays
\* pending with the checkpoint of that branch.
EmitVeneer(s, l) ==
  LET refs == s.labels[l].refs
      limited == SelectSeq(refs, LAMBDA r : r.branch /\ ~r.veneer)
      kept == SelectSeq(refs, LAMBDA r : ~(r.branch /\ ~r.veneer))
      s1 == [s EXCEPT !.labels[l].refs = kept,
                      !.links = @ \cup Resolved(l, limited, s.cursor, "veneer")]
      s2 == EncodeLabel(s1, l, "veneer", kMaxInstructionSizeInBytes, kVeneerRange, TRUE)
      n == Len(s2.labels[l].refs)
      fresh == s2.labels[l].refs[n].checkpoint
  IN  [s2 EXCEPT !.labels[l].refs[n].branch = TRUE,
                 !.labels[l].checkpoint = fresh,
                 !.vp_checkpoint = Min(@, fresh)]

RECURSIVE EmitVeneers(_, _)
EmitVeneers(s, ls) ==
  IF ls = <<>> THEN s ELSE EmitVeneers(EmitVeneer(s, Head(ls)), Tail(ls))

\* VeneerPoolManager::Emit(target): a veneer for every pending label.
VeneerEmit(s, target) ==
  IF s.veneer_labels = <<>> THEN s
  ELSE ComputeCheckpoint(EmitVeneers([s EXCEPT !.vp_checkpoint = kMaxOffset],
                                     s.veneer_labels))

(***************************************************************************)
(* The emission guard                                                      *)
(***************************************************************************)
\* MacroAssembler::PerformEnsureEmit(target, size): the forced flush.  The
\* literal pool goes out behind a branch, then a veneer for every pending
\* label; the checkpoint is reset and recomputed from what remains.
PerformEnsureEmit(s, target, size) ==
  LET s1 == EmitLiteralPool(s, "kBranchRequired")
      s2 == VeneerEmit(s1, target)
  IN  ComputeCheckpoint([s2 EXCEPT !.checkpoint_ = kMaxOffset])

\* EnsureEmitFor that already flushes one instruction before the checkpoint.
EnsureEmitFor_EarlyFlush(s, size) ==
  LET target == AlignUp(s.cursor + size, 4)
      early == target + kMaxInstructionSizeInBytes
      s1 == IF early < s.checkpoint_ THEN s
            ELSE PerformEnsureEmit(Note(s, [ev |-> "PerformEnsureEmit"]), target, size)
  IN  Note(s1, [ev |-> "EnsureEmitFor", size |-> size, target |-> target,
                before |-> s.checkpoint_, flush |-> ~(early < s.checkpoint_),
                checkpoint |-> s1.checkpoint_, cursor |-> s1.cursor])

\* EnsureEmitFor that still admits an instruction ending at the checkpoint.
EnsureEmitFor_AdmitsEqual(s, size) ==
  LET target == AlignUp(s.cursor + size, 4)
      s1 == IF target <= s.checkpoint_ THEN s
            ELSE PerformEnsureEmit(Note(s, [ev |-> "PerformEnsureEmit"]), target, size)
  IN  Note(s1, [ev |-> "EnsureEmitFor", size |-> size, target |-> target,
                before |-> s.checkpoint_, flush |-> ~(target <= s.checkpoint_),
                checkpoint |-> s1.checkpoint_, cursor |-> s1.cursor])

\* MacroAssembler::EnsureEmitFor(size)
EnsureEmitFor(s, size) ==
  LET target == AlignUp(s.cursor + size, 4)
      s1 == IF target < s.checkpoint_ THEN s
            ELSE PerformEnsureEmit(Note(s, [ev |-> "PerformEnsureEmit"]), target, size)
  IN  Note(s1, [ev |-> "EnsureEmitFor", size |-> size, target |-> target,
                before |-> s.checkpoint_, flush |-> ~(target < s.checkpoint_),
                checkpoint |-> s1.checkpoint_, cursor |-> s1.cursor])

(***************************************************************************)
(* MacroAssembler::GenerateInstruction                                     *)
(***************************************************************************)
\* Assembler::ldr / ldrd / vldr / adr (..., RawLiteral*): one instruction
\* that leaves a forward reference on the literal.
EncodeLiteral(s, bytes, id) == Encode(s, "ldr", bytes, id, "al")

\* StoreLiteral that adds the literal whatever its position.
StoreLiteral_AddsAgain(s, literal) == AddLiteral(s, literal)

\* if (literal->GetPositionInPool() == Label::kMaxOffset) AddLiteral(literal):
\* a literal with a position is not added again; the pool, which holds a
\* pointer to it, sees its new forward reference while it is pending.
StoreLiteral(s, literal) ==
  IF literal.position = kMaxOffset THEN AddLiteral(s, literal)
  ELSE IF PoolIndex(s, literal.id) = 0 THEN s
  ELSE [s EXCEPT !.pool = [i \in DOMAIN @ |-> IF @[i].id = literal.id
                                              THEN literal ELSE @[i]]]

\* The RawLiteral as the pool holds it, or as the caller holds it when the
\* pool does not.
Held(s, literal) ==
  IF PoolIndex(s, literal.id) # 0 THEN s.pool[PoolIndex(s, literal.id)]
  ELSE literal

\* The raw encoder's reference to a literal: a forward reference while the
\* literal is not placed, none once it is bound.
Refer(s, literal, loc, range) ==
  IF literal.id \in s.bound_literals THEN literal
  ELSE AddLiteralForwardRef(s.t32, literal, loc, range)

\* The end of GenerateInstruction: the literal is registered on its first
\* appearance and its checkpoint is refreshed.  (x is the state, evaluated
\* once.)
Registered(s, literal) ==
  CHOOSE after \in {UpdateCheckpoint(x, Held(x, literal)) :
                      x \in {StoreLiteral(s, literal)}} : TRUE

\* GenerateInstruction whose retry keeps the forward reference of the reverted
\* instruction.
GenerateInstruction_KeepsReference(s, literal, range, bytes) ==
  LET cursor0 == s.cursor
      where == cursor0 + PcOffset(s.t32)
      s1 == EncodeLiteral(s, bytes, literal.id)
      l1 == AddLiteralForwardRef(s.t32, literal, cursor0, range)
      far == IsInsertTooFar(s1, l1, where)
      s2 == IF far THEN EmitLiteralPool(Rewind(s1, cursor0), "kBranchRequired") ELSE s1
      s3 == IF far THEN EncodeLiteral(s2, bytes, literal.id) ELSE s2
      l3 == IF far THEN Refer(s2, l1, s2.cursor, range) ELSE l1
      s4 == Note(s3, [ev |-> "GenerateInstruction", id |-> literal.id,
                      cursor0 |-> cursor0, from |-> where,
                      distance |-> GetLastInsertForwardDistance(l1),
                      literal_checkpoint |-> l1.checkpoint,
                      pool_size |-> GetSize(s1),
                      retry |-> far, emitted |-> s2.cursor,
                      checkpoint |-> s2.checkpoint_,
                      still_far |-> IsInsertTooFar(s3, l3, s2.cursor + PcOffset(s.t32)),
                      nrefs |-> Len(l3.refs)])
  IN  Registered(s4, l3)

\* GenerateInstruction whose retry encodes again without emitting the pool.
GenerateInstruction_RetryWithoutFlush(s, literal, range, bytes) ==
  LET cursor0 == s.cursor
      where == cursor0 + PcOffset(s.t32)
      s1 == EncodeLiteral(s, bytes, literal.id)
      l1 == AddLiteralForwardRef(s.t32, literal, cursor0, range)
      far == IsInsertTooFar(s1, l1, where)
      s2 == IF far THEN Rewind(s1, cursor0) ELSE s1
      l2 == IF far THEN InvalidateLastForwardReference(l1) ELSE l1
      s3 == IF far THEN EncodeLiteral(s2, bytes, literal.id) ELSE s2
      l3 == IF far THEN Refer(s2, l2, s2.cursor, range) ELSE l2
      s4 == Note(s3, [ev |-> "GenerateInstruction", id |-> literal.id,
                      cursor0 |-> cursor0, from |-> where,
                      distance |-> GetLastInsertForwardDistance(l1),
                      literal_checkpoint |-> l1.checkpoint,
                      pool_size |-> GetSize(s1),
                      retry |-> far, emitted |-> s2.cursor,
                      checkpoint |-> s2.checkpoint_,
                      still_far |-> IsInsertTooFar(s3, l3, s2.cursor + PcOffset(s.t32)),
                      nrefs |-> Len(l3.refs)])
  IN  Registered(s4, l3)

\* MacroAssembler::GenerateInstruction(instr_callback, literal)
GenerateInstruction(s, literal, range, bytes) ==
  LET cursor0 == s.cursor
      where == cursor0 + PcOffset(s.t32)
      s1 == EncodeLiteral(s, bytes, literal.id)
      l1 == AddLiteralForwardRef(s.t32, literal, cursor0, range)
      far == IsInsertTooFar(s1, l1, where)
      s2 == IF far THEN EmitLiteralPool(Rewind(s1, cursor0), "kBranchRequired") ELSE s1
      l2 == IF far THEN InvalidateLastForwardReference(l1) ELSE l1
      s3 == IF far THEN EncodeLiteral(s2, bytes, literal.id) ELSE s2
      l3 == IF far THEN Refer(s2, l2, s2.cursor, range) ELSE l2
      s4 == Note(s3, [ev |-> "GenerateInstruction", id |-> literal.id,
                      cursor0 |-> cursor0, from |-> where,
                      distance |-> GetLastInsertForwardDistance(l1),
                      literal_checkpoint |-> l1.checkpoint,
                      pool_size |-> GetSize(s1),
                      retry |-> far, emitted |-> s2.cursor,
                      checkpoint |-> s2.checkpoint_,
                      still_far |-> IsInsertTooFar(s3, l3, s2.cursor + PcOffset(s.t32)),
                      nrefs |-> Len(l3.refs)])
  IN  Registered(s4, l3)

(***************************************************************************)
(* MacroAssembler::ITScope                                                 *)
(***************************************************************************)
\* The key under which the scope's own Label (label_) is kept while the
\* scope is alive.
ItLabel == 0

\* The constructor: nothing for al or outside T32; an IT instruction when
\* the wrapped instruction may follow one; otherwise room is reserved, a
\* narrow branch with the negated condition is emitted towards label_ and
\* the caller's condition becomes al.

\* ITScope that emits the branch without reserving room first.
ITScope_NoReserve(s, cond, can_use_it) ==
  LET applies == cond # "al" /\ s.t32
      s0 == [s EXCEPT !.labels = (ItLabel :> NewLabel) @@ @]
      s1 == IF ~applies THEN s0
            ELSE IF can_use_it
                 THEN Encode(s0, "it", k16BitT32InstructionSizeInBytes, 0, cond)
                 ELSE EncodeLabelCond(
                        s0, ItLabel, "b_narrow", k16BitT32InstructionSizeInBytes,
                        NarrowRange, FALSE, Negate(cond))
      s2 == [s1 EXCEPT !.cond = IF applies /\ ~can_use_it THEN "al" ELSE cond,
                       !.it_scope = [cond_ |-> cond, can_use_it_ |-> can_use_it,
                                     initial_cursor_offset_ |-> s1.cursor]]
  IN  Note(s2, [ev |-> "ITScope", cond_ |-> cond, can_use_it_ |-> can_use_it,
                cond |-> s2.cond, entry |-> s.cursor,
                label_ |-> s2.labels[ItLabel],
                veneer_labels |-> s2.veneer_labels,
                vp_checkpoint |-> s2.vp_checkpoint,
                checkpoint_ |-> s2.checkpoint_])

\* ITScope that leaves the caller's condition as it was.
ITScope_KeepsCondition(s, cond, can_use_it) ==
  LET applies == cond # "al" /\ s.t32
      s0 == [s EXCEPT !.labels = (ItLabel :> NewLabel) @@ @]
      s1 == IF ~applies THEN s0
            ELSE IF can_use_it
                 THEN Encode(s0, "it", k16BitT32InstructionSizeInBytes, 0, cond)
                 ELSE EncodeLabelCond(
                        EnsureEmitFor(s0, k16BitT32InstructionSizeInBytes
                                          + kMaxT32MacroInstructionSizeInBytes),
                        ItLabel, "b_narrow", k16BitT32InstructionSizeInBytes,
                        NarrowRange, FALSE, Negate(cond))
      s2 == [s1 EXCEPT !.cond = cond,
                       !.it_scope = [cond_ |-> cond, can_use_it_ |-> can_use_it,
                                     initial_cursor_offset_ |-> s1.cursor]]
  IN  Note(s2, [ev |-> "ITScope", cond_ |-> cond, can_use_it_ |-> can_use_it,
                cond |-> s2.cond, entry |-> s.cursor,
                label_ |-> s2.labels[ItLabel],
                veneer_labels |-> s2.veneer_labels,
                vp_checkpoint |-> s2.vp_checkpoint,
                checkpoint_ |-> s2.checkpoint_])

\* ITScope whose branch goes through the veneer bookkeeping as B does.
ITScope_Registers(s, cond, can_use_it) ==
  LET applies == cond # "al" /\ s.t32
      s0 == [s EXCEPT !.labels = (ItLabel :> NewLabel) @@ @]
      s1 == IF ~applies THEN s0
            ELSE IF can_use_it
                 THEN Encode(s0, "it", k16BitT32InstructionSizeInBytes, 0, cond)
                 ELSE AddLabel(EncodeLabelCond(
                        EnsureEmitFor(s0, k16BitT32InstructionSizeInBytes
                                          + kMaxT32MacroInstructionSizeInBytes),
                        ItLabel, "b_narrow", k16BitT32InstructionSizeInBytes,
                        NarrowRange, FALSE, Negate(cond)), ItLabel)
      s2 == [s1 EXCEPT !.cond = IF applies /\ ~can_use_it THEN "al" ELSE cond,
                       !.it_scope = [cond_ |-> cond, can_use_it_ |-> can_use_it,
                                     initial_cursor_offset_ |-> s1.cursor]]
  IN  Note(s2, [ev |-> "ITScope", cond_ |-> cond, can_use_it_ |-> can_use_it,
                cond |-> s2.cond, entry |-> s.cursor,
                label_ |-> s2.labels[ItLabel],
                veneer_labels |-> s2.veneer_labels,
                vp_checkpoint |-> s2.vp_checkpoint,
                checkpoint_ |-> s2.checkpoint_])

\* ITScope::ITScope(masm, &cond, can_use_it)
ITScope(s, cond, can_use_it) ==
  LET applies == cond # "al" /\ s.t32
      s0 == [s EXCEPT !.labels = (ItLabel :> NewLabel) @@ @]
      s1 == IF ~applies THEN s0
            ELSE IF can_use_it
                 THEN Encode(s0, "it", k16BitT32InstructionSizeInBytes, 0, cond)
                 ELSE EncodeLabelCond(
                        EnsureEmitFor(s0, k16BitT32InstructionSizeInBytes
                                          + kMaxT32MacroInstructionSizeInBytes),
                        ItLabel, "b_narrow", k16BitT32InstructionSizeInBytes,
                        NarrowRange, FALSE, Negate(cond))
      s2 == [s1 EXCEPT !.cond = IF applies /\ ~can_use_it THEN "al" ELSE cond,
                       !.it_scope = [cond_ |-> cond, can_use_it_ |-> can_use_it,
                                     initial_cursor_offset_ |-> s1.cursor]]
  IN  Note(s2, [ev |-> "ITScope", cond_ |-> cond, can_use_it_ |-> can_use_it,
                cond |-> s2.cond, entry |-> s.cursor,
                label_ |-> s2.labels[ItLabel],
                veneer_labels |-> s2.veneer_labels,
                vp_checkpoint |-> s2.vp_checkpoint,
                checkpoint_ |-> s2.checkpoint_])

\* The destructor: on the branch path the wrapped region is checked against
\* kMaxT32MacroInstructionSizeInBytes and label_ is bound at the cursor;
\* label_ then goes away with the scope.

\* ~ITScope that leaves label_ unbound.
ITScopeExit_NoBind(s) ==
  LET sc == s.it_scope
      branched == sc.cond_ # "al" /\ s.t32 /\ ~sc.can_use_it_
      s1 == s
      s2 == [s1 EXCEPT !.labels = [l \in DOMAIN s1.labels \ {ItLabel} |-> s1.labels[l]],
                       !.it_scope = <<>>]
  IN  Note(s2, [ev |-> "~ITScope", branched |-> branched,
                wrapped |-> s.cursor - sc.initial_cursor_offset_,
                cursor |-> s.cursor,
                label_ |-> s1.labels[ItLabel],
                veneer_labels |-> s1.veneer_labels,
                vp_checkpoint |-> s1.vp_checkpoint,
                checkpoint_ |-> s1.checkpoint_])

\* ITScope::~ITScope()
ITScopeExit(s) ==
  LET sc == s.it_scope
      branched == sc.cond_ # "al" /\ s.t32 /\ ~sc.can_use_it_
      s1 == IF branched THEN RawBind(s, ItLabel) ELSE s
      s2 == [s1 EXCEPT !.labels = [l \in DOMAIN s1.labels \ {ItLabel} |-> s1.labels[l]],
                       !.it_scope = <<>>]
  IN  Note(s2, [ev |-> "~ITScope", branched |-> branched,
                wrapped |-> s.cursor - sc.initial_cursor_offset_,
                cursor |-> s.cursor,
                label_ |-> s1.labels[ItLabel],
                veneer_labels |-> s1.veneer_labels,
                vp_checkpoint |-> s1.vp_checkpoint,
                checkpoint_ |-> s1.checkpoint_])

(***************************************************************************)
(* The entry points                                                        *)
(***************************************************************************)
\* What a pool leaves in the buffer.
PoolKinds == {"b_after_literal", "literal", "veneer"}

\* Whether there is a pool among the items.
HasPool(items) == \E i \in DOMAIN items : items[i].kind \in PoolKinds

\* The live AssemblerAccurateScope objects after an entry point: those that
\* were alive before it remember whether it emitted a pool.
Remember(s) ==
  [k \in DOMAIN s.accurate |->
     IF k <= Len(accurate) /\ HasPool(s.out)
     THEN [s.accurate[k] EXCEPT !.pools = TRUE]
     ELSE s.accurate[k]]

\* The state after an entry point, and what it did.
Commit(after, op) ==
  \E s \in {after} :
    /\ cursor' = s.cursor
    /\ pool' = s.pool
    /\ size_' = s.size_
    /\ lp_checkpoint' = s.lp_checkpoint
    /\ labels' = s.labels
    /\ veneer_labels' = s.veneer_labels
    /\ vp_checkpoint' = s.vp_checkpoint
    /\ checkpoint_' = s.checkpoint_
    /\ count_' = s.count_
    /\ scopes' = s.scopes
    /\ aborted' = s.aborted
    /\ table' = s.table
    /\ available_' = s.available_
    /\ available_vfp_' = s.available_vfp_
    /\ temps' = s.temps
    /\ allow_macro_instructions_' = s.allow_macro_instructions_
    /\ accurate' = Remember(s)
    /\ keep_until_delete_' = s.keep_until_delete_
    /\ deleted' = s.deleted
    /\ destroyed' = s.destroyed
    /\ bound_literals' = s.bound_literals
    /\ out' = s.out
    /\ placed' = s.placed
    /\ links' = s.links
    /\ last' = [op |-> op, trace |-> s.trace]
    /\ t32' = t32

\* MacroAssembler::Ldr(cond, rt, v), Ldrd(cond, rt, rt2, v), Vldr(cond, rt, v):
\* a fresh literal, the guard, then the speculative load.
LdrUpTo(max, range, litsize, bytes) ==
  /\ cursor <= MaxCursor
  /\ nlit < max
  /\ nlit' = nlit + 1
  /\ \E literal \in {NewLiteral(nlit + 1, litsize)},
        s1 \in {EnsureEmitFor(St, kMaxInstructionSizeInBytes)} :
       Commit(GenerateInstruction(s1, literal, range, bytes), "Ldr")

\* At most MaxLits of them in a program.
Ldr(range, litsize, bytes) == LdrUpTo(MaxLits, range, litsize, bytes)

\* AddBranchLabel that registers nothing.
AddBranchLabel_Never(s, l) == s

\* MacroAssembler::AddBranchLabel(label)
AddBranchLabel(s, l) == IF s.labels[l].bound THEN s ELSE AddLabel(s, l)

\* MacroAssembler::B(cond, label); Bl, Blx, Cbz and Cbnz have the same shape.
B(l, range, bytes) ==
  /\ cursor <= MaxCursor
  /\ Len(labels[l].refs) < MaxRefs
  /\ LET s1 == EnsureEmitFor(St, kMaxInstructionSizeInBytes)
         s2 == EncodeLabel(s1, l, "b", bytes, range, FALSE)
     IN  Commit(AddBranchLabel(s2, l), "B")
  /\ UNCHANGED nlit

\* MacroAssembler::Ldr(cond, rt, label), Adr(cond, rd, label): a load or an
\* address computation whose operand is a label.
LdrLabel(l, range, bytes) ==
  /\ cursor <= MaxCursor
  /\ Len(labels[l].refs) < MaxRefs
  /\ LET s1 == EnsureEmitFor(St, kMaxInstructionSizeInBytes)
     IN  Commit(EncodeLabel(s1, l, "ldr_label", bytes, range, FALSE), "LdrLabel")
  /\ UNCHANGED nlit

\* Bind that resets the veneer pool's checkpoint itself when the label is
\* not pending.
BindLabel_ResetsCheckpoint(s, l) ==
  LET s1 == RawBind(s, l)
  IN  IF s1.labels[l].in_veneer_pool THEN RemoveLabel(s1, l)
      ELSE ComputeCheckpoint([s1 EXCEPT !.vp_checkpoint = kMaxOffset])

\* Bind that leaves the label in the veneer pool.
BindLabel_NoRemove(s, l) == RawBind(s, l)

\* MacroAssembler::Bind(label): the raw bind, then the label leaves the
\* veneer pool if it is in it.
BindLabel(s, l) ==
  LET s1 == RawBind(s, l)
  IN  IF s1.labels[l].in_veneer_pool THEN RemoveLabel(s1, l) ELSE s1

\* MacroAssembler::Bind(label), called by the user.
Bind(l) ==
  /\ cursor <= MaxCursor
  /\ ~labels[l].bound
  /\ Commit(BindLabel(St, l), "Bind")
  /\ UNCHANGED nlit

\* A macro instruction without label or literal operand (MacroAssembler::Adc
\* and the like): the guard, then one instruction.
Instr(bytes) ==
  /\ cursor <= MaxCursor
  /\ LET s1 == EnsureEmitFor(St, kMaxInstructionSizeInBytes)
     IN  Commit(Encode(s1, "instr", bytes, 0, "al"), "Instr")
  /\ UNCHANGED nlit

\* Adc that calls the encoder a second time.
Adc_EncodesTwice(cond, can_use_it, bytes) ==
  /\ cursor <= MaxCursor
  /\ LET s1 == EnsureEmitFor(St, kMaxInstructionSizeInBytes)
         s2 == ITScope(s1, cond, can_use_it)
         s3 == Encode(s2, "adc", bytes, 0, s2.cond)
     IN  Commit(ITScopeExit(Encode(s3, "adc", bytes, 0, s2.cond)), "Adc")
  /\ UNCHANGED nlit

\* MacroAssembler::Adc(cond, rd, rn, operand) and the macro instructions of
\* the same shape: the guard, the ITScope, one instruction under the
\* condition the scope left, the end of the scope.
Adc(cond, can_use_it, bytes) ==
  /\ cursor <= MaxCursor
  /\ \E s1 \in {EnsureEmitFor(St, kMaxInstructionSizeInBytes)} :
       \E s2 \in {ITScope(s1, cond, can_use_it)} :
         \E s3 \in {Encode(s2, "adc", bytes, 0, s2.cond)} :
           Commit(ITScopeExit(s3), "Adc")
  /\ UNCHANGED nlit

\* MacroAssembler::EnsureEmitFor(size), called by the user.
EnsureEmit(size) ==
  /\ cursor <= MaxCursor
  /\ Commit(EnsureEmitFor(St, size), "EnsureEmitFor")
  /\ UNCHANGED nlit

\* MacroAssembler::EmitLiteralPool(option), called by the user.
EmitPool(option) ==
  /\ cursor <= MaxCursor
  /\ Commit(Note(EmitLiteralPool(St, option),
                 [ev |-> "EmitLiteralPool(option)", option |-> option,
                  size |-> size_, checkpoint |-> lp_checkpoint]),
            "EmitLiteralPool")
  /\ UNCHANGED nlit

(***************************************************************************)
(* Literals of the program's own                                           *)
(***************************************************************************)
\* The literals the program constructs before it assembles, as
\* <<size in bytes, deletion policy>>: a character, a string of six and a
\* word, then the same again.
UserLiterals ==
  <<<<1, "kDeletedOnPlacementByPool">>, <<6, "kDeletedOnPoolDestruction">>,
    <<4, "kManuallyDeleted">>>>

\* The RawLiteral behind the k-th literal of the program: the object the
\* pool holds if it holds it, a literal with no position otherwise.
UserLiteral(s, k) ==
  LET id == 100 + k
      u == UserLiterals[((k - 1) % Len(UserLiterals)) + 1]
  IN  IF PoolIndex(s, id) # 0 THEN s.pool[PoolIndex(s, id)]
      ELSE Literal(id, u[1], u[2])

\* MacroAssembler::AddLiteral(literal), called by the program with one of
\* its literals that has not been deleted.
AddUserLiteral(k) ==
  /\ deleted[100 + k] = 0
  /\ Len(pool) < MaxPool
  /\ Commit(Note(AddLiteral(St, UserLiteral(St, k)),
                 [ev |-> "AddLiteral", id |-> 100 + k, position |-> size_]),
            "AddLiteral")
  /\ UNCHANGED nlit

\* A macro instruction of a class derived from MacroAssembler that loads
\* from a literal its caller owns, the k-th of the program, through
\* GenerateInstruction: the guard, then the speculative load.  The literal
\* has not been placed when the load is generated.
LdrLiteral(k, range, bytes) ==
  /\ cursor <= MaxCursor
  /\ deleted[100 + k] = 0
  /\ \E s1 \in {EnsureEmitFor(St, kMaxInstructionSizeInBytes)} :
       /\ (100 + k) \notin s1.bound_literals
       /\ Len(UserLiteral(s1, k).refs) < MaxRefs
       /\ Commit(GenerateInstruction(s1, UserLiteral(s1, k), range, bytes), "Ldr")
  /\ UNCHANGED nlit

\* MacroAssembler::~MacroAssembler(): the literal pool manager and its pool
\* are destroyed with the assembler.
Teardown ==
  /\ Commit(LiteralPoolExit(St), "~MacroAssembler")
  /\ UNCHANGED nlit

(***************************************************************************)
(* JumpTable                                                               *)
(***************************************************************************)
\* The keys of JumpTableBase::default_ and JumpTableBase::end_ among the
\* labels.
DefaultLabel == 3
EndLabel == 4

\* sizeof(T) of JumpTable8bitOffset, JumpTable16bitOffset and
\* JumpTable32bitOffset.
OffsetSizes == {1, 2, 4}

\* The reach of the conditional branch Switch emits towards the default
\* label.
SwitchBranchRange == 1048574

WhichPowerOf2(size) == IF size = 1 THEN 0 ELSE IF size = 2 THEN 1 ELSE 2

\* No table yet.
NoTable ==
  [phase |-> "none", length_ |-> 0, offset_size |-> 4, offset_shift_ |-> 2,
   table_location_ |-> kMaxOffset, branch_location_ |-> kMaxOffset,
   presence_ |-> {}, slots |-> <<>>, cases |-> <<>>,
   default_location |-> kMaxOffset, end_location |-> kMaxOffset, bodies |-> 0]

\* JumpTableBase::JumpTableBase(len, offset_size): nothing is present and
\* neither location is known; the two labels are fresh.  cases remembers
\* where each case was bound.
NewTable(s, len, offset_size) ==
  [s EXCEPT !.table = [NoTable EXCEPT !.phase = "open", !.length_ = len,
                                      !.offset_size = offset_size,
                                      !.offset_shift_ = WhichPowerOf2(offset_size),
                                      !.slots = [i \in 1..len |-> 0],
                                      !.cases = [i \in 1..len |-> kMaxOffset],
                                      !.bodies = s.table.bodies],
            !.labels = (DefaultLabel :> NewLabel) @@ (EndLabel :> NewLabel) @@ @]

\* JumpTableBase::GetTableSizeInBytes()
GetTableSizeInBytes(s) == s.table.length_ * (2 ^ s.table.offset_shift_)

\* VIXL_ASSERT((i >= 0) && (i < length_)), of GetLocationForCase and of
\* SetPresenceBitForCase (debug build).
CaseInTable(s, i) == (i >= 0) /\ (i < s.table.length_)

\* The process aborts on a failed assertion.
AssertionFailed(s, what, i) ==
  Note([s EXCEPT !.aborted = TRUE], [ev |-> "VIXL_ASSERT", in |-> what, i |-> i])

\* JumpTableBase::GetLocationForCase(i): the value returned when the
\* assertion holds.
GetLocationForCase(s, i) == s.table.table_location_ + i * (2 ^ s.table.offset_shift_)

\* SetPresenceBitForCase without the assertion.
SetPresenceBitForCase_NoAssert(s, i) == [s EXCEPT !.table.presence_ = @ \cup {i}]

\* SetPresenceBitForCase that forgets the cases marked before.
SetPresenceBitForCase_Only(s, i) ==
  IF CaseInTable(s, i) THEN [s EXCEPT !.table.presence_ = {i}]
  ELSE AssertionFailed(s, "SetPresenceBitForCase", i)

\* JumpTableBase::SetPresenceBitForCase(i)
SetPresenceBitForCase(s, i) ==
  IF CaseInTable(s, i) THEN [s EXCEPT !.table.presence_ = @ \cup {i}]
  ELSE AssertionFailed(s, "SetPresenceBitForCase", i)

\* A store through a T*: the value modulo 2^(8 * sizeof(T)).  The offsets of
\* the model are far below 2^31, which a 32-bit slot holds unchanged.
StoreAs(value, size) ==
  IF size = 1 THEN value % 256 ELSE IF size = 2 THEN value % 65536 ELSE value

\* JumpTable<T>::Link(masm, case_index, location): the slot of the case
\* receives the offset from the branch location, shifted by the instruction
\* set's alignment and stored as a T.
Link(s, case_index, location) ==
  LET position_in_table == GetLocationForCase(s, case_index)
      from == s.table.branch_location_
      offset == location - from
      value == IF s.t32 THEN offset \div 2 ELSE offset \div 4
  IN  IF ~CaseInTable(s, case_index)
      THEN AssertionFailed(s, "GetLocationForCase", case_index)
      ELSE Note([s EXCEPT !.table.slots[case_index + 1] =
                            StoreAs(value, s.table.offset_size)],
                [ev |-> "Link", case |-> case_index, position |-> position_in_table,
                 location |-> location])

RECURSIVE LinkEach(_, _, _)
\* BitField::ForEachBitNotSet(LinkIt(table, masm, location)), over the cases
\* from i on.
LinkEach(s, i, location) ==
  IF i >= s.table.length_ THEN s
  ELSE LinkEach(IF i \in s.table.presence_ THEN s ELSE Link(s, i, location),
                i + 1, location)

\* MacroAssembler::Bind of one of the table's labels; the table remembers
\* Label::GetLocation().
BindTableLabel(s, l) ==
  LET s1 == BindLabel(s, l)
  IN  IF l = DefaultLabel THEN [s1 EXCEPT !.table.default_location = s.cursor]
      ELSE [s1 EXCEPT !.table.end_location = s.cursor]

\* JumpTableBase::Finalize(masm)
Finalize(s) ==
  LET s1 == IF ~s.labels[DefaultLabel].bound THEN BindTableLabel(s, DefaultLabel) ELSE s
      s2 == BindTableLabel(s1, EndLabel)
  IN  LinkEach(s2, 0, s2.table.default_location)

\* Where the indexed branch goes for index i: the branch location plus the
\* slot of i, scaled by the instruction set's alignment.
DispatchTarget(tb, isT32, i) ==
  tb.branch_location_ + tb.slots[i + 1] * (IF isT32 THEN 2 ELSE 4)

\* One macro instruction without label or literal operand.
Plain(s) ==
  Encode(EnsureEmitFor(s, kMaxInstructionSizeInBytes), "instr",
         kMaxInstructionSizeInBytes, 0, "al")

\* n instructions in a row from the raw assembler, after the guard has made
\* room for all of them.
Run(s, n) ==
  Emit(EnsureEmitFor(s, n * kMaxInstructionSizeInBytes), "instr",
       n * kMaxInstructionSizeInBytes, 0)

\* Up that checks before it counts.
Up_ChecksFirst(s) ==
  IF s.count_ < kMaxRecursion
  THEN [s EXCEPT !.count_ = @ + 1]
  ELSE [s EXCEPT !.aborted = TRUE]

\* MacroAssemblerContext::Up(): count, then VIXL_CHECK(count_ < kMaxRecursion),
\* which aborts in every build.
Up(s) ==
  LET s1 == [s EXCEPT !.count_ = @ + 1]
  IN  IF s1.count_ < kMaxRecursion THEN s1 ELSE [s1 EXCEPT !.aborted = TRUE]

\* MacroAssemblerContext::Down(): VIXL_ASSERT((count_ > 0) && (count_ <
\* kMaxRecursion)), which aborts in a debug build only, then the count goes
\* down.
Down(s, debug) ==
  IF debug /\ ~(s.count_ > 0 /\ s.count_ < kMaxRecursion)
  THEN [s EXCEPT !.aborted = TRUE]
  ELSE [s EXCEPT !.count_ = @ - 1]

\* ContextScope::ContextScope(masm): an emission helper is entered.
ContextScope ==
  /\ ~aborted
  /\ LET s1 == Up(St)
     IN  Commit(IF s1.aborted THEN s1
                ELSE [s1 EXCEPT !.scopes = Append(@, count_)], "ContextScope")
  /\ UNCHANGED nlit

\* ContextScope::~ContextScope(): the innermost helper returns.
ContextScopeExit ==
  /\ ~aborted
  /\ scopes # <<>>
  /\ \E debug \in BOOLEAN :
       LET s1 == Down(St, debug)
       IN  Commit(IF s1.aborted THEN s1
                  ELSE [s1 EXCEPT !.scopes = SubSeq(@, 1, Len(@) - 1)],
                  "~ContextScope")
  /\ UNCHANGED nlit

\* MacroAssembler::Switch(reg, table), with the construction of the table:
\* the comparison of the index with the length, the conditional branch to
\* the default label, the indexed branch, whose location the table records,
\* and the table itself, zeroed and padded to a 32-bit boundary.
Switch(len, offset_size) ==
  /\ table.phase = "none"
  /\ LET s0 == NewTable(St, len, offset_size)
         s1 == Plain(s0)
         s2 == EnsureEmitFor(s1, kMaxInstructionSizeInBytes)
         s3 == AddBranchLabel(EncodeLabelCond(s2, DefaultLabel, "b",
                                              kMaxInstructionSizeInBytes,
                                              SwitchBranchRange, FALSE, "ge"),
                              DefaultLabel)
         table_size == AlignUp(GetTableSizeInBytes(s3), 4)
         s4 == EnsureEmitFor(s3, kMaxInstructionSizeInBytes + table_size)
         s5 == Encode([s4 EXCEPT !.table.branch_location_ = s4.cursor + PcOffset(s4.t32)],
                      "indexed_branch", kMaxInstructionSizeInBytes, 0, "al")
         s6 == Emit([s5 EXCEPT !.table.table_location_ = s5.cursor],
                    "table", table_size, 0)
     IN  Commit(s6, "Switch")
  /\ UNCHANGED nlit

\* MacroAssembler::Case(table, case_index): the slot of the case is linked
\* to the cursor and the case is present.
Case(case_index) ==
  /\ table.phase = "open"
  /\ case_index < table.length_
  /\ case_index \notin table.presence_
  /\ LET s1 == Link(St, case_index, cursor)
         s2 == SetPresenceBitForCase(s1, case_index)
     IN  Commit([s2 EXCEPT !.table.cases[case_index + 1] = cursor], "Case")
  /\ UNCHANGED nlit

\* table->GetLocationForCase(i), called by the program in a debug build.
AskLocationForCase(i) ==
  /\ table.phase = "open"
  /\ Commit(IF CaseInTable(St, i)
            THEN Note(St, [ev |-> "GetLocationForCase", i |-> i,
                           location |-> GetLocationForCase(St, i)])
            ELSE AssertionFailed(St, "GetLocationForCase", i),
            "GetLocationForCase")
  /\ UNCHANGED nlit

\* table->SetPresenceBitForCase(i), called by the program in a debug build.
MarkCasePresent(i) ==
  /\ table.phase = "open"
  /\ Commit(Note(SetPresenceBitForCase(St, i), [ev |-> "SetPresenceBitForCase", i |-> i]),
            "SetPresenceBitForCase")
  /\ UNCHANGED nlit

\* MacroAssembler::Default(table): the default label is bound.
Default ==
  /\ table.phase = "open"
  /\ ~labels[DefaultLabel].bound
  /\ Commit(BindTableLabel(St, DefaultLabel), "Default")
  /\ UNCHANGED nlit

\* MacroAssembler::EndSwitch(table)
EndSwitch ==
  /\ table.phase = "open"
  /\ Commit([Finalize(St) EXCEPT !.table.phase = "final"], "EndSwitch")
  /\ UNCHANGED nlit

\* The code before the dispatch or the body of a case: n instructions.
Body(n) ==
  /\ table.phase # "final"
  /\ table.bodies < MaxBodies
  /\ Commit([Run(St, n) EXCEPT !.table.bodies = @ + 1], "Body")
  /\ UNCHANGED nlit

(***************************************************************************)
(* CodeBufferCheckScope and AssemblerAccurateScope (debug build)           *)
(***************************************************************************)
\* CodeBufferCheckScope::AssertPolicy
AssertPolicies == {"kNoAssert", "kExactSize", "kMaximumSize"}

\* Sizes asked of an AssemblerAccurateScope.
ScopeSizes == {kMaxInstructionSizeInBytes, 2 * kMaxInstructionSizeInBytes}

\* CodeBufferCheckScope(masm, size, assert_policy): the guard, then the
\* scope remembers the cursor, the size and the policy.
CodeBufferCheckScope(s, size, assert_policy) ==
  LET s1 == EnsureEmitFor(s, size)
  IN  [s1 EXCEPT !.accurate =
         Append(@, [initial_cursor_offset_ |-> s1.cursor, size_ |-> size,
                    assert_policy_ |-> assert_policy,
                    old_allow_macro_instructions_ |-> TRUE,
                    pools |-> FALSE])]

\* ~CodeBufferCheckScope(): the assertion of the policy on the bytes emitted
\* since construction.
CodeBufferCheckScopeExit(s) ==
  LET scope == s.accurate[Len(s.accurate)]
      emitted == s.cursor - scope.initial_cursor_offset_
      ok == CASE scope.assert_policy_ = "kNoAssert" -> TRUE
              [] scope.assert_policy_ = "kExactSize" -> emitted = scope.size_
              [] scope.assert_policy_ = "kMaximumSize" -> emitted <= scope.size_
      s1 == Note(s, [ev |-> "~CodeBufferCheckScope", emitted |-> emitted,
                     size_ |-> scope.size_, assert_policy_ |-> scope.assert_policy_,
                     pools |-> scope.pools])
  IN  IF ok THEN [s1 EXCEPT !.accurate = SubSeq(@, 1, Len(@) - 1)]
      ELSE [s1 EXCEPT !.aborted = TRUE]

\* AssemblerAccurateScope(masm, size, policy): the base constructor, the
\* assertion on the policy, then macro instructions are disallowed and the
\* old value of the flag is kept.
AssemblerAccurateScope(s, size, policy) ==
  LET s1 == CodeBufferCheckScope(s, size, policy)
      k == Len(s1.accurate)
  IN  IF policy = "kNoAssert" THEN [s1 EXCEPT !.aborted = TRUE]
      ELSE [s1 EXCEPT !.accurate[k].old_allow_macro_instructions_ =
                         s.allow_macro_instructions_,
                      !.allow_macro_instructions_ = FALSE]

\* ~AssemblerAccurateScope(): the flag gets its old value, then the base
\* destructor runs.
AssemblerAccurateScopeExit(s) ==
  CodeBufferCheckScopeExit(
    [s EXCEPT !.allow_macro_instructions_ =
                s.accurate[Len(s.accurate)].old_allow_macro_instructions_])

\* An AssemblerAccurateScope is constructed.
AccurateCtor(size, policy) ==
  /\ ~aborted
  /\ cursor <= MaxCursor
  /\ Len(accurate) < MaxAccurate
  /\ Commit(AssemblerAccurateScope(St, size, policy), "AssemblerAccurateScope")
  /\ UNCHANGED nlit

\* The innermost AssemblerAccurateScope is destroyed.
AccurateDtor ==
  /\ ~aborted
  /\ accurate # <<>>
  /\ Commit(AssemblerAccurateScopeExit(St), "~AssemblerAccurateScope")
  /\ UNCHANGED nlit

\* One instruction of the raw assembler (a lower-case method), inside a
\* scope.
Raw(bytes) ==
  /\ ~aborted
  /\ accurate # <<>>
  /\ cursor <= MaxCursor
  /\ Commit(Encode(St, "raw", bytes, 0, "al"), "raw")
  /\ UNCHANGED nlit

\* A macro instruction is called while macro instructions are disallowed:
\* VIXL_ASSERT(allow_macro_instructions_) fails.
MacroDisallowed ==
  /\ ~aborted
  /\ ~allow_macro_instructions_
  /\ Commit([St EXCEPT !.aborted = TRUE], "VIXL_ASSERT")
  /\ UNCHANGED nlit

(***************************************************************************)
(* UseScratchRegisterScope                                                 *)
(***************************************************************************)
\* The core and the VFP registers a list of the model may hold, by number
\* (r12 and d0), and the list MacroAssembler() starts with: r12.
CoreRegs == {12}
VRegs == {0}
InitialScratch == {12}

\* UseScratchRegisterScope(): both list pointers NULL (FALSE here), both
\* saved lists 0.  entry remembers the lists the last Open found.
NewScope ==
  [available_ |-> FALSE, available_vfp_ |-> FALSE,
   old_available_ |-> {}, old_available_vfp_ |-> {},
   entry |-> [core |-> {}, vfp |-> {}], opened |-> 0]

\* Open that saves the core list only.
Open_CoreOnly(s, k) ==
  [s EXCEPT !.temps[k] = [@ EXCEPT !.available_ = TRUE,
                                   !.old_available_ = s.available_,
                                   !.available_vfp_ = TRUE]]

\* UseScratchRegisterScope::Open(masm): the scope points at the two lists of
\* the MacroAssembler and saves what they hold.
Open(s, k) ==
  [s EXCEPT !.temps[k] = [@ EXCEPT !.available_ = TRUE,
                                   !.old_available_ = s.available_,
                                   !.available_vfp_ = TRUE,
                                   !.old_available_vfp_ = s.available_vfp_]]

\* Close that writes the saved lists back whether or not the scope is open.
Close_Unconditional(s, k) ==
  Note([s EXCEPT !.available_ = s.temps[k].old_available_,
                 !.available_vfp_ = s.temps[k].old_available_vfp_,
                 !.temps[k].available_ = FALSE,
                 !.temps[k].available_vfp_ = FALSE],
       [ev |-> "Close", scope |-> k,
        open |-> s.temps[k].available_ /\ s.temps[k].available_vfp_,
        ever |-> s.temps[k].opened = 1,
        stale |-> <<s.temps[k].old_available_, s.temps[k].old_available_vfp_>>
                    # <<s.available_, s.available_vfp_>>])

\* UseScratchRegisterScope::Close(): each list the scope points at gets its
\* saved value back and the pointer becomes NULL; nothing happens for a
\* pointer that is NULL.
Close(s, k) ==
  LET s1 == IF s.temps[k].available_
            THEN [s EXCEPT !.available_ = s.temps[k].old_available_,
                           !.temps[k].available_ = FALSE]
            ELSE s
      s2 == IF s1.temps[k].available_vfp_
            THEN [s1 EXCEPT !.available_vfp_ = s.temps[k].old_available_vfp_,
                            !.temps[k].available_vfp_ = FALSE]
            ELSE s1
  IN  Note(s2, [ev |-> "Close", scope |-> k,
                open |-> s.temps[k].available_ /\ s.temps[k].available_vfp_,
                ever |-> s.temps[k].opened = 1,
                stale |-> <<s.temps[k].old_available_, s.temps[k].old_available_vfp_>>
                            # <<s.available_, s.available_vfp_>>])

\* The lowest register of a list.
First(list) == CHOOSE r \in list : \A q \in list : r <= q

\* UseScratchRegisterScope::Acquire(): the first register of the core list
\* leaves the list.
Acquire(s) == [s EXCEPT !.available_ = @ \ {First(@)}]

\* UseScratchRegisterScope::AcquireV(size), AcquireD(), AcquireS() and
\* AcquireQ(): the same for the VFP list.
AcquireV(s) == [s EXCEPT !.available_vfp_ = @ \ {First(@)}]

\* UseScratchRegisterScope::Release(reg) and Include(list), core and VFP.
Include(s, list, vlist) ==
  [s EXCEPT !.available_ = @ \cup list, !.available_vfp_ = @ \cup vlist]

\* UseScratchRegisterScope::Exclude(list), core and VFP.
Exclude(s, list, vlist) ==
  [s EXCEPT !.available_ = @ \ list, !.available_vfp_ = @ \ vlist]

\* UseScratchRegisterScope::ExcludeAll()
ExcludeAll(s) == Exclude(s, s.available_, s.available_vfp_)

\* Whether a scope points at the lists.
IsOpen(scope) == scope.available_ /\ scope.available_vfp_

\* UseScratchRegisterScope(masm) when opened is true, UseScratchRegisterScope()
\* otherwise: a scope is constructed.
ScopeCtor(opened) ==
  /\ Len(temps) < MaxScopes
  /\ LET k == Len(temps) + 1
         s1 == [St EXCEPT !.temps = Append(@, NewScope)]
         s2 == IF opened
               THEN [Open(s1, k) EXCEPT !.temps[k].entry =
                       [core |-> available_, vfp |-> available_vfp_],
                                        !.temps[k].opened = 1]
               ELSE s1
     IN  Commit(s2, "UseScratchRegisterScope")
  /\ UNCHANGED nlit

\* scope.Open(masm) on a scope that points at no list.
ScopeOpen(k) ==
  /\ k \in DOMAIN temps
  /\ ~temps[k].available_ /\ ~temps[k].available_vfp_
  /\ Commit([Open(St, k) EXCEPT !.temps[k].entry =
                 [core |-> available_, vfp |-> available_vfp_],
                               !.temps[k].opened = 1], "Open")
  /\ UNCHANGED nlit

\* scope.Close(), called by the user.
ScopeClose(k) ==
  /\ k \in DOMAIN temps
  /\ Commit(Close(St, k), "Close")
  /\ UNCHANGED nlit

\* ~UseScratchRegisterScope() of the scope constructed last: Close(), and
\* the object is gone.
ScopeDtor ==
  /\ temps # <<>>
  /\ LET s1 == Close(St, Len(temps))
     IN  Commit([s1 EXCEPT !.temps = SubSeq(@, 1, Len(@) - 1)],
                "~UseScratchRegisterScope")
  /\ UNCHANGED nlit

\* Some scope points at the lists.
SomeOpen == \E k \in DOMAIN temps : IsOpen(temps[k])

\* scope.Acquire() and scope.AcquireV(size) through an open scope.
ScopeAcquire(vfp) ==
  /\ SomeOpen
  /\ IF vfp THEN available_vfp_ # {} ELSE available_ # {}
  /\ Commit(IF vfp THEN AcquireV(St) ELSE Acquire(St), "Acquire")
  /\ UNCHANGED nlit

\* scope.Release(reg) and scope.Include(list) through an open scope.
ScopeInclude(list, vlist) ==
  /\ SomeOpen
  /\ Commit(Include(St, list, vlist), "Include")
  /\ UNCHANGED nlit

\* scope.Exclude(list) through an open scope.
ScopeExclude(list, vlist) ==
  /\ SomeOpen
  /\ Commit(Exclude(St, list, vlist), "Exclude")
  /\ UNCHANGED nlit

\* scope.ExcludeAll() through an open scope.
ScopeExcludeAll ==
  /\ SomeOpen
  /\ Commit(ExcludeAll(St), "ExcludeAll")
  /\ UNCHANGED nlit

\* GetScratchRegisterList()->SetList(list) and
\* GetScratchVRegisterList()->SetList(vlist): the lists are modified
\* directly.
SetScratch(list, vlist) ==
  /\ Commit([St EXCEPT !.available_ = list, !.available_vfp_ = vlist],
            "SetList")
  /\ UNCHANGED nlit

\* FinalizeCode that emits the pool behind a branch.
FinalizeCode_BranchRequired(s) == EmitLiteralPool(s, "kBranchRequired")

\* MacroAssembler::FinalizeCode(): the literal pool without a branch over it;
\* Assembler::FinalizeCode() emits nothing.
FinalizeCode(s) == EmitLiteralPool(s, "kNoBranchRequired")

\* MacroAssembler::FinalizeCode(), called by the user.
DoFinalizeCode ==
  /\ cursor <= MaxCursor
  /\ Commit(FinalizeCode(St), "FinalizeCode")
  /\ UNCHANGED nlit

\* MacroAssembler::MacroAssembler(): both pools empty, every checkpoint at the
\* sentinel and ComputeCheckpoint() run once.
Init ==
  /\ t32 \in BOOLEAN
  /\ cursor = 0
  /\ pool = <<>>
  /\ size_ = 0
  /\ lp_checkpoint = kMaxOffset
  /\ labels = [l \in AllLabelIds |-> NewLabel]
  /\ veneer_labels = <<>>
  /\ vp_checkpoint = kMaxOffset
  /\ checkpoint_ = kMaxOffset - kMaxInstructionSizeInBytes
  /\ nlit = 0
  /\ count_ = 0
  /\ scopes = <<>>
  /\ aborted = FALSE
  /\ table = NoTable
  /\ available_ = InitialScratch
  /\ available_vfp_ = {}
  /\ temps = <<>>
  /\ allow_macro_instructions_ = TRUE
  /\ accurate = <<>>
  /\ keep_until_delete_ = <<>>
  /\ deleted = [id \in LitIds |-> 0]
  /\ destroyed = FALSE
  /\ bound_literals = {}
  /\ out = <<>>
  /\ placed = {}
  /\ links = {}
  /\ last = [op |-> "MacroAssembler", trace |-> <<>>]

\* Sizes a caller asks the guard for.
EnsureSizes == {0, 2 * kMaxInstructionSizeInBytes}

Next ==
  \/ \E r \in LiteralRanges, n \in LiteralSizes, b \in InstrSizes(t32) : Ldr(r, n, b)
  \/ \E l \in LabelIds, r \in BranchRanges : B(l, r, kMaxInstructionSizeInBytes)
  \/ \E l \in LabelIds : Bind(l)
  \/ \E b \in InstrSizes(t32) : Instr(b)
  \/ \E n \in EnsureSizes : EnsureEmit(n)
  \/ \E o \in EmitOptions : EmitPool(o)

Spec == Init /\ [][Next]_vars

\* A program of macro instructions that also loads from, or takes the address
\* of, its labels.
NextData ==
  \/ \E r \in LiteralRanges, n \in LiteralSizes, b \in InstrSizes(t32) : Ldr(r, n, b)
  \/ \E l \in LabelIds, r \in BranchRanges : B(l, r, kMaxInstructionSizeInBytes)
  \/ \E l \in LabelIds : LdrLabel(l, MinRange, kMaxInstructionSizeInBytes)
  \/ \E l \in LabelIds : Bind(l)
  \/ \E b \in InstrSizes(t32) : Instr(b)

SpecData == Init /\ [][NextData]_vars

\* A program of conditional macro instructions, literal loads and branches.
\* An instruction that may follow an IT instruction has a 16-bit encoding.
NextIT ==
  \/ \E r \in LiteralRanges, n \in LiteralSizes, b \in InstrSizes(t32) : Ldr(r, n, b)
  \/ \E l \in LabelIds, r \in BranchRanges : B(l, r, kMaxInstructionSizeInBytes)
  \/ \E l \in LabelIds : Bind(l)
  \/ \E c \in Conds, it \in BOOLEAN, b \in InstrSizes(t32) :
       /\ (it /\ t32 /\ c # "al") => b = k16BitT32InstructionSizeInBytes
       /\ Adc(c, it, b)

SpecIT == Init /\ [][NextIT]_vars

\* A program of branches to two labels, of plain instructions and of loads
\* of a word from the literal pool.
NextVeneer ==
  \/ \E r \in LiteralRanges : Ldr(r, kMaxInstructionSizeInBytes, kMaxInstructionSizeInBytes)
  \/ \E l \in AllLabelIds, r \in BranchRanges : B(l, r, kMaxInstructionSizeInBytes)
  \/ \E l \in AllLabelIds : Bind(l)
  \/ \E b \in InstrSizes(t32) : Instr(b)
  \/ \E n \in EnsureSizes : EnsureEmit(n)

SpecVeneer == Init /\ [][NextVeneer]_vars

\* A program with one dispatch: code, the dispatch, cases and their bodies,
\* the end of the dispatch.
NextSwitch ==
  \/ \E n \in 1..MaxCases, size \in OffsetSizes : Switch(n, size)
  \/ \E i \in 0..(MaxCases - 1) : Case(i)
  \/ Default
  \/ \E n \in BodyRuns : Body(n)
  \/ EndSwitch

SpecSwitch == Init /\ [][NextSwitch]_vars

\* A program whose loads share literals: the second and the third literal
\* of the program, which the pool does not delete when it places them.
SharedLiterals == {2, 3}

NextShared ==
  \/ /\ ~aborted /\ nlit = 0
     /\ Ldr(MinRange + 8, kMaxInstructionSizeInBytes, kMaxInstructionSizeInBytes)
  \/ \E k \in SharedLiterals, r \in LiteralRanges, b \in InstrSizes(t32) :
       ~aborted /\ LdrLiteral(k, r, b)
  \/ ~aborted /\ Instr(kMaxInstructionSizeInBytes)
  \/ \E o \in EmitOptions : ~aborted /\ EmitPool(o)

SpecShared == Init /\ [][NextShared]_vars

\* A program that makes a jump table of any length and asks it for the
\* locations of cases and marks cases present, whatever the index, in a
\* debug build.
NextTable ==
  \/ \E n \in 0..MaxCases, size \in OffsetSizes : ~aborted /\ Switch(n, size)
  \/ \E i \in (-1)..MaxCases : ~aborted /\ AskLocationForCase(i)
  \/ \E i \in (-1)..MaxCases : ~aborted /\ MarkCasePresent(i)
  \/ \E i \in 0..(MaxCases - 1) : ~aborted /\ Case(i)
  \/ ~aborted /\ Body(1)

SpecTable == Init /\ [][NextTable]_vars

\* A program of macro instructions (one literal load, branches, binds) and
\* of raw instructions inside AssemblerAccurateScopes, in a debug build.
NextAccurate ==
  \/ \E n \in {kMaxInstructionSizeInBytes} :
       /\ ~aborted /\ allow_macro_instructions_
       /\ nlit = 0
       /\ Ldr(MinRange, n, kMaxInstructionSizeInBytes)
  \/ \E l \in LabelIds, r \in BranchRanges :
       /\ ~aborted /\ allow_macro_instructions_
       /\ B(l, r, kMaxInstructionSizeInBytes)
  \/ \E l \in LabelIds : ~aborted /\ allow_macro_instructions_ /\ Bind(l)
  \/ MacroDisallowed
  \/ \E n \in ScopeSizes, p \in AssertPolicies : AccurateCtor(n, p)
  \/ AccurateDtor
  \/ \E b \in InstrSizes(t32) : Raw(b)

SpecAccurate == Init /\ [][NextAccurate]_vars

\* The arguments of Release, Include and Exclude: one core register, one
\* VFP register, or a list of core registers.
ListArgs ==
  {<<{r}, {}>> : r \in CoreRegs} \cup {<<{}, {v}>> : v \in VRegs}
    \cup {<<CoreRegs, {}>>}

\* A program that opens, uses and closes scratch-register scopes and also
\* modifies the two lists directly.
NextScratch ==
  \/ \E opened \in BOOLEAN : ScopeCtor(opened)
  \/ \E k \in 1..MaxScopes : ScopeOpen(k)
  \/ \E k \in 1..MaxScopes : ScopeClose(k)
  \/ ScopeDtor
  \/ \E vfp \in BOOLEAN : ScopeAcquire(vfp)
  \/ \E a \in ListArgs : ScopeInclude(a[1], a[2])
  \/ \E a \in ListArgs : ScopeExclude(a[1], a[2])
  \/ ScopeExcludeAll
  \/ \E list \in SUBSET CoreRegs, vlist \in SUBSET VRegs : SetScratch(list, vlist)

SpecScratch == Init /\ [][NextScratch]_vars

\* Emission helpers that enter one another and emit instructions, until the
\* process aborts.
NextContext ==
  \/ ContextScope
  \/ ContextScopeExit
  \/ \E b \in InstrSizes(t32) : ~aborted /\ Instr(b)

SpecContext == Init /\ [][NextContext]_vars

\* The assembler can still be used.
Usable == ~aborted /\ ~destroyed

\* A program that loads constants, adds literals of its own to the pool,
\* flushes the pool, finalizes the code and destroys the assembler, in a
\* debug build.
NextPool ==
  \/ /\ Usable /\ nlit = 0
     /\ Ldr(MinRange + 8, kMaxInstructionSizeInBytes, kMaxInstructionSizeInBytes)
  \/ \E k \in 1..MaxUser : Usable /\ AddUserLiteral(k)
  \/ Usable /\ EmitPool("kBranchRequired")
  \/ Usable /\ DoFinalizeCode
  \/ Usable /\ Teardown

SpecPool == Init /\ [][NextPool]_vars

\* A program that only loads constants, every one a different one, and
\* never flushes the pool itself.
NextLoads ==
  \E r \in LiteralRanges, n \in LiteralSizes, b \in InstrSizes(t32) :
    LdrUpTo(MaxLoads, r, n, b)

SpecLoads == Init /\ [][NextLoads]_vars

\* A program of literal loads, branches and plain instructions that is
\* finalized.
NextFinal ==
  \/ \E r \in LiteralRanges, n \in LiteralSizes, b \in InstrSizes(t32) : Ldr(r, n, b)
  \/ \E l \in LabelIds, r \in BranchRanges : B(l, r, kMaxInstructionSizeInBytes)
  \/ \E l \in LabelIds : Bind(l)
  \/ \E b \in InstrSizes(t32) : Instr(b)
  \/ DoFinalizeCode

SpecFinal == Init /\ [][NextFinal]_vars

(***************************************************************************)
(* Events of the last entry point                                          *)
(***************************************************************************)
\* The events of one kind the last entry point logged, in order.
Events(kind) == SelectSeq(last.trace, LAMBDA e : e.ev = kind)
Happened(kind) == Events(kind) # <<>>

(***************************************************************************)
(* C1: every literal placed in the buffer is placed at an offset not       *)
(* greater than the checkpoint recorded for it at its last referencing     *)
(* instruction, and when a non-empty pool starts being emitted the cursor  *)
(* is strictly below the checkpoint of every literal of the pool.          *)
(***************************************************************************)
C1_PlacedWithinCheckpoint ==
  \A p \in placed : p.offset <= p.checkpoint /\ p.start < p.checkpoint

\* A forced flush placed a pool of two literals.
C1_Witness ==
  /\ Cardinality(placed) = 2
  /\ Happened("PerformEnsureEmit")

(***************************************************************************)
(* C2: every instruction emitted by a macro entry point that called        *)
(* EnsureEmitFor(worst_case_size) before encoding satisfies                *)
(* offset_emitted + worst_case_size <= the assembler checkpoint in force   *)
(* when the emission decision was taken (the recomputed one when the guard *)
(* has just flushed).                                                      *)
(***************************************************************************)
\* The instructions the macro entry points encode for the caller.
MacroKinds == {"ldr", "b", "ldr_label", "instr"}

C2_EmittedBelowCheckpoint ==
  last.op \in {"Ldr", "B", "LdrLabel", "Instr"} =>
    \A i \in DOMAIN out :
      out[i].kind \in MacroKinds =>
        LET e == Events("EnsureEmitFor")[1]
        IN  out[i].off + e.size <= e.checkpoint

(***************************************************************************)
(* C3: a label referenced by a macro branch before it is bound is reached  *)
(* from the branch directly or through exactly one veneer: every branch    *)
(* that is resolved, to the label or to a veneer, is resolved to an offset *)
(* within its range, and a veneer is never resolved to another veneer.     *)
(***************************************************************************)
C3_BranchReachesTarget ==
  \A k \in links :
    /\ k.target <= k.checkpoint
    /\ k.via = "veneer" => ~k.veneer

(***************************************************************************)
(* C4: immediately after EmitLiteralPool(option) returns, for either       *)
(* option and whether or not the pool was empty, the pool holds no         *)
(* literal, its size is 0 and the literal-pool manager's checkpoint is     *)
(* Label::kMaxOffset.                                                      *)
(***************************************************************************)
C4_FlushEmptiesPool ==
  last.op = "EmitLiteralPool" =>
    /\ pool = <<>>
    /\ size_ = 0
    /\ lp_checkpoint = kMaxOffset

\* An explicit flush without branch placed two literals.
C4_Witness ==
  /\ last.op = "EmitLiteralPool"
  /\ Cardinality(placed) = 2
  /\ \A i \in DOMAIN out : out[i].kind # "b_after_literal"

(***************************************************************************)
(* C5: EnsureEmitFor(size) called while AlignUp(cursor + size, 4) is       *)
(* strictly below the assembler checkpoint changes nothing: cursor,        *)
(* buffer, literal pool, veneer pool, labels and the three checkpoints     *)
(* stay as they are.                                                       *)
(***************************************************************************)
C5_NoActionBelowCheckpoint ==
  [][(/\ last'.op = "EnsureEmitFor"
      /\ AlignUp(cursor + last'.trace[Len(last'.trace)].size, 4) < checkpoint_)
     => /\ UNCHANGED <<cursor, pool, size_, lp_checkpoint, labels, veneer_labels,
                       vp_checkpoint, checkpoint_>>
        /\ out' = <<>> /\ placed' = {} /\ links' = {}]_vars

\* The guard returned without action although a literal and a label were
\* pending.
C5_Witness ==
  /\ last.op = "EnsureEmitFor"
  /\ ~Happened("PerformEnsureEmit")
  /\ pool # <<>>
  /\ veneer_labels # <<>>

(***************************************************************************)
(* C6: EnsureEmitFor(size) called while AlignUp(cursor + size, 4) is at or *)
(* above the assembler checkpoint performs a forced flush: the literal     *)
(* pool goes out behind a branch, every pending label gets a veneer, and   *)
(* the checkpoint is recomputed from what remains, each label still        *)
(* pending having a fresh checkpoint derived from the cursor of its        *)
(* veneer.                                                                 *)
(***************************************************************************)
\* The items of one kind written by the last entry point.
ItemsOf(items, kind) == SelectSeq(items, LAMBDA it : it.kind = kind)

C6_ForcedFlush ==
  [][(/\ last'.op = "EnsureEmitFor"
      /\ AlignUp(cursor + last'.trace[Len(last'.trace)].size, 4) >= checkpoint_)
     => /\ pool' = <<>> /\ size_' = 0 /\ lp_checkpoint' = kMaxOffset
        /\ pool # <<>> =>
             /\ out'[1] = Item("b_after_literal", cursor, kMaxInstructionSizeInBytes, 0)
             /\ [i \in DOMAIN pool |-> pool[i].id]
                  = [i \in DOMAIN ItemsOf(out', "literal") |-> ItemsOf(out', "literal")[i].id]
        /\ [i \in DOMAIN veneer_labels |-> veneer_labels[i]]
             = [i \in DOMAIN ItemsOf(out', "veneer") |-> ItemsOf(out', "veneer")[i].id]
        /\ veneer_labels' = veneer_labels
        /\ \A i \in DOMAIN ItemsOf(out', "veneer") :
             LET v == ItemsOf(out', "veneer")[i]
             IN  labels'[v.id].checkpoint = RefCheckpoint(t32, v.off, kVeneerRange)
        /\ checkpoint_' = Min(lp_checkpoint', vp_checkpoint') - kMaxInstructionSizeInBytes
        /\ vp_checkpoint' = MinCheckpoint([labels |-> labels'], veneer_labels')]_vars

\* The guard flushed a literal and a veneer when the target was exactly the
\* checkpoint.
C6_Witness ==
  /\ last.op = "EnsureEmitFor"
  /\ LET e == Events("EnsureEmitFor")[1] IN e.flush /\ e.target = e.before
  /\ placed # {}
  /\ ItemsOf(out, "veneer") # <<>>

(***************************************************************************)
(* C7: in every state in which an emission decision is taken the assembler *)
(* checkpoint is min(literal-pool manager checkpoint, veneer-pool manager  *)
(* checkpoint) minus kMaxInstructionSizeInBytes.                           *)
(***************************************************************************)
C7_CheckpointIsMin ==
  checkpoint_ = Min(lp_checkpoint, vp_checkpoint) - kMaxInstructionSizeInBytes

\* Both managers constrain the checkpoint, the veneer pool more than the
\* literal pool.
C7_Witness ==
  /\ lp_checkpoint < kMaxOffset
  /\ vp_checkpoint < lp_checkpoint

C9_RetryLeavesOneCopy ==
  (last.op = "Ldr" /\ Events("GenerateInstruction")[1].retry) =>
    LET g == Events("GenerateInstruction")[1]
        n == Len(out)
        lit == pool[Len(pool)]
    IN  /\ out[1] = Item("b_after_literal", g.cursor0, kMaxInstructionSizeInBytes, 0)
        /\ \A i \in 1..(n - 1) : out[i + 1].off = out[i].off + out[i].size
        /\ \A i \in 2..(n - 1) : out[i].kind \in {"pad", "literal"}
        /\ \E i \in 2..(n - 1) : out[i].kind = "literal"
        /\ out[n].kind = "ldr" /\ out[n].id = g.id /\ out[n].off = g.emitted
        /\ cursor = out[n].off + out[n].size
        /\ lit.id = g.id
        /\ Len(lit.refs) = 1
        /\ lit.refs[1].loc = g.emitted

\* A retry that emitted padding and a literal before the instruction.
C9_Witness ==
  /\ last.op = "Ldr"
  /\ Events("GenerateInstruction")[1].retry
  /\ placed # {}
  /\ ItemsOf(out, "pad") # <<>>

(***************************************************************************)
(* C10: the retry of GenerateInstruction happens at most once per call,    *)
(* and after it the too-far test on the instruction encoded again is       *)
(* false: the pool is empty and begins at the cursor.                      *)
(***************************************************************************)
C10_RetrySucceeds ==
  \A i \in DOMAIN Events("GenerateInstruction") :
    LET g == Events("GenerateInstruction")[i]
    IN  /\ Len(ItemsOf(out, "ldr")) = 1
        /\ g.retry => ~g.still_far /\ pool = <<pool[1]>> /\ pool[1].position = 0

\* A retry in the Thumb state for the narrowest range, from an unaligned
\* cursor.
C10_Witness ==
  /\ last.op = "Ldr"
  /\ t32
  /\ LET g == Events("GenerateInstruction")[1]
     IN  g.retry /\ g.cursor0 % 4 = 2 /\ pool[1].refs[1].range = MinRange

(***************************************************************************)
(* C11: each macro-instruction request makes exactly one call to the raw   *)
(* encoder -- two when GenerateInstruction retries -- for every entry      *)
(* point, condition and instruction set.  The calls counted are those of   *)
(* the entry point and of its ITScope; the branch over a pool and the      *)
(* veneers belong to the flush.                                            *)
(***************************************************************************)
\* The entry points that emit one macro instruction.
MacroOps == {"Ldr", "B", "LdrLabel", "Instr", "Adc"}
\* The raw encoder calls of a forced flush.
FlushKinds == {"b_after_literal", "veneer"}
\* The raw encoder calls of an ITScope.
ScopeKinds == {"it", "b_narrow"}
\* The calls of the raw encoder the last entry point made, by kind.
Calls(kinds) == SelectSeq(last.trace, LAMBDA e : e.ev = "encode" /\ e.kind \in kinds)
AllKinds == {last.trace[i].kind : i \in {j \in DOMAIN last.trace : last.trace[j].ev = "encode"}}
\* Whether the last entry point took the retry of GenerateInstruction.
Retried == Happened("GenerateInstruction") /\ Events("GenerateInstruction")[1].retry

C11_OneEncoderCall ==
  last.op \in MacroOps =>
    Len(Calls(AllKinds \ FlushKinds)) = IF Retried THEN 2 ELSE 1

\* C11 as the code has it: one call for the requested instruction, two on
\* the retry, and one more call before it -- it, or the narrow branch --
\* when the ITScope meets a condition other than al in T32.
C11_OneCallPlusScope ==
  last.op \in MacroOps =>
    /\ Len(Calls(AllKinds \ (FlushKinds \cup ScopeKinds))) = IF Retried THEN 2 ELSE 1
    /\ Len(Calls(ScopeKinds)) =
         IF Happened("ITScope") /\ t32 /\ Events("ITScope")[1].cond_ # "al"
         THEN 1 ELSE 0

\* A conditional Adc in T32 whose guard flushed a pool and a veneer first.
C11_Witness ==
  /\ last.op = "Adc"
  /\ Len(Calls(ScopeKinds)) = 1
  /\ Len(Calls(FlushKinds)) = 2

(***************************************************************************)
(* C12: RemoveLabel on a label that is not in the veneer pool changes      *)
(* nothing -- pending labels, veneer checkpoint and assembler checkpoint   *)
(* stay -- and Bind of a label that was never added to the veneer pool     *)
(* binds the label and leaves the veneer pool as it was.                   *)
(***************************************************************************)
\* The labels in the pending list.
Pending == {veneer_labels[i] : i \in DOMAIN veneer_labels}

C12_RemoveAbsentIsNoOp ==
  /\ [](\A l \in AllLabelIds \ Pending : RemoveLabel(St, l) = St)
  /\ [][\A l \in AllLabelIds :
          (/\ last'.op = "Bind"
           /\ ~labels[l].bound /\ labels'[l].bound
           /\ ~labels[l].in_veneer_pool)
          => /\ UNCHANGED <<veneer_labels, vp_checkpoint, checkpoint_, cursor,
                            pool, size_, lp_checkpoint>>
             /\ \A o \in AllLabelIds \ {l} : labels'[o] = labels[o]
             /\ out' = <<>>]_vars

\* A label no branch referred to was bound while the other one was pending.
C12_Witness ==
  /\ last.op = "Bind"
  /\ links = {}
  /\ labels[2].bound
  /\ veneer_labels = <<1>>
  /\ vp_checkpoint < kMaxOffset

(***************************************************************************)
(* C13: AddLabel is idempotent on membership: a label referenced by        *)
(* several branches occurs once in the pending list, so GetMaxSize is the  *)
(* number of distinct pending labels times kMaxInstructionSizeInBytes;     *)
(* each call leaves the cached veneer checkpoint at min(previous value,    *)
(* the label's checkpoint), and ComputeCheckpoint runs exactly when the    *)
(* cached value strictly decreased.                                        *)
(***************************************************************************)
\* Whether an event of the given kind follows position i of the log.
FollowedBy(i, kind) ==
  \E j \in DOMAIN last.trace : j > i /\ last.trace[j].ev = kind

C13_AddLabelIdempotent ==
  /\ \A i, j \in DOMAIN veneer_labels : veneer_labels[i] = veneer_labels[j] => i = j
  /\ \A l \in AllLabelIds : labels[l].in_veneer_pool <=> l \in Pending
  /\ GetMaxSize(St) = Cardinality(Pending) * kMaxInstructionSizeInBytes
  /\ last.op = "B" =>
       \A i \in DOMAIN last.trace :
         last.trace[i].ev = "AddLabel" =>
           LET e == last.trace[i]
           IN  /\ vp_checkpoint = Min(e.before, labels[e.label].checkpoint)
               /\ FollowedBy(i, "ComputeCheckpoint") <=> vp_checkpoint < e.before

\* A second branch to a pending label: no new entry and no recompute, while
\* the other label is pending too.
C13_Witness ==
  /\ last.op = "B"
  /\ Len(veneer_labels) = 2
  /\ \E i \in DOMAIN last.trace :
       /\ last.trace[i].ev = "AddLabel"
       /\ Len(labels[last.trace[i].label].refs) = 2
       /\ ~FollowedBy(i, "ComputeCheckpoint")

(***************************************************************************)
(* C14: when the veneer pool is flushed, exactly one veneer -- a           *)
(* full-range unconditional branch -- is emitted at the flush site for     *)
(* each label that is still unbound, every range-limited branch to that    *)
(* label is redirected to the veneer, and when the label is bound later    *)
(* the veneer is patched to the real destination: a branch whose target    *)
(* is bound beyond its range goes through exactly one veneer.              *)
(***************************************************************************)
\* Whether the entry point that led to the next state flushed by force.
Flushed == \E i \in DOMAIN last'.trace : last'.trace[i].ev = "PerformEnsureEmit"

Scope == Events("ITScope")[1]
ScopeEnd == Events("~ITScope")[1]
\* The condition the wrapped instruction was encoded with.
WrappedCond == Calls({"adc"})[1].cond

C15_ThreeBehaviours ==
  last.op = "Adc" =>
    LET guards == Events("EnsureEmitFor")
        its == Calls({"it"})
        bs == Calls({"b_narrow"})
    IN  IF Scope.cond_ = "al" \/ ~t32
        THEN /\ its = <<>> /\ bs = <<>> /\ Len(guards) = 1
             /\ Scope.cond = Scope.cond_ /\ WrappedCond = Scope.cond_
             /\ Scope.label_.refs = <<>>
        ELSE IF Scope.can_use_it_
        THEN /\ Len(its) = 1 /\ its[1].cond = Scope.cond_
             /\ bs = <<>> /\ Len(guards) = 1
             /\ Scope.cond = Scope.cond_ /\ WrappedCond = Scope.cond_
             /\ Scope.label_.refs = <<>>
        ELSE /\ its = <<>>
             /\ Len(guards) = 2
             /\ guards[2].size = k16BitT32InstructionSizeInBytes
                                   + kMaxT32MacroInstructionSizeInBytes
             /\ Len(bs) = 1 /\ bs[1].cond = Negate(Scope.cond_)
             /\ bs[1].cond # Scope.cond_
             /\ ItemsOf(out, "b_narrow")[1].size = k16BitT32InstructionSizeInBytes
             /\ ItemsOf(out, "b_narrow")[1].off = guards[2].cursor
             /\ Len(Scope.label_.refs) = 1
             /\ Scope.label_.refs[1].loc = guards[2].cursor
             /\ ~Scope.label_.bound
             /\ Scope.cond = "al" /\ WrappedCond = "al"

\* The branch path, with a flush forced by the room the scope reserves.
C15_Witness ==
  /\ last.op = "Adc"
  /\ Calls({"b_narrow"}) # <<>>
  /\ ~Events("EnsureEmitFor")[1].flush
  /\ Events("EnsureEmitFor")[2].flush

Holds(ls, l) == \E i \in DOMAIN ls : ls[i] = l

C17_ScopeBranchRegistered ==
  (last.op = "Adc" /\ ScopeEnd.branched) =>
    /\ Scope.label_.in_veneer_pool
    /\ Holds(Scope.veneer_labels, ItLabel)
    /\ Scope.checkpoint_ <= Scope.label_.refs[1].checkpoint - kMaxInstructionSizeInBytes
    /\ ~Holds(ScopeEnd.veneer_labels, ItLabel)

\* C17 as the code has it: the branch and the bind go through the raw
\* assembler.  The local label never enters the veneer pool and neither the
\* branch nor the bind changes a checkpoint; the room reserved before the
\* branch keeps the label within the branch's range, with no flush in
\* between.
C17_ScopeBranchUnregistered ==
  (last.op = "Adc" /\ ScopeEnd.branched) =>
    LET guard == Events("EnsureEmitFor")[2]
    IN  /\ ~Scope.label_.in_veneer_pool
        /\ ~Holds(Scope.veneer_labels, ItLabel)
        /\ Scope.veneer_labels = veneer_labels /\ ScopeEnd.veneer_labels = veneer_labels
        /\ Scope.checkpoint_ = guard.checkpoint
        /\ ScopeEnd.checkpoint_ = guard.checkpoint /\ checkpoint_ = guard.checkpoint
        /\ Scope.vp_checkpoint = vp_checkpoint /\ ScopeEnd.vp_checkpoint = vp_checkpoint
        /\ Len(Events("PerformEnsureEmit")) <= 1
        /\ \A k \in links : k.label = ItLabel => k.target <= k.checkpoint
        /\ cursor <= guard.cursor + guard.size

\* The branch path while a label is pending in the veneer pool.
C17_Witness ==
  /\ last.op = "Adc"
  /\ ScopeEnd.branched
  /\ veneer_labels # <<>>
  /\ pool # <<>>

(***************************************************************************)
(* C19: FinalizeCode always flushes the literal pool, without a branch     *)
(* over it: after FinalizeCode the pool is empty with size 0, every        *)
(* literal that was pending is placed in the buffer, and no unconditional  *)
(* branch was emitted in front of the pool data.                           *)
(***************************************************************************)
\* The ids of the literals of a pool.
PoolIds(lits) == {lits[i].id : i \in DOMAIN lits}

C19_FinalizeFlushesWithoutBranch ==
  [][last'.op = "FinalizeCode" =>
       /\ pool' = <<>> /\ size_' = 0
       /\ lp_checkpoint' = kMaxOffset
       /\ {k.id : k \in placed'} = PoolIds(pool)
       /\ \A k \in placed' : k.offset >= cursor /\ k.offset % 4 = 0
       /\ Len(ItemsOf(out', "literal")) = Len(pool)
       /\ \A i \in DOMAIN out' : out'[i].kind \in {"literal", "pad"}
       /\ Calls({"b_after_literal"})' = <<>>
       /\ cursor' >= cursor + size_]_vars

\* Two literals are pending when the code is finalized in the middle of a
\* word.
C19_Witness ==
  /\ last.op = "FinalizeCode"
  /\ Cardinality(placed) = 2
  /\ \E i \in DOMAIN out : out[i].kind = "pad"

(***************************************************************************)
(* C20: the recursion guard bounds the nesting of emission helpers.  The   *)
(* counter goes up on ContextScope entry and down on exit; it is strictly  *)
(* below kMaxRecursion (5) in every state that is not a fatal error; an    *)
(* entry that would make it reach 5 is a fatal error from which nothing    *)
(* recovers; and after a ContextScope exits the counter has the value it   *)
(* had before that scope was entered.                                      *)
(***************************************************************************)
C20_RecursionGuard ==
  /\ [](/\ ~aborted => (count_ < kMaxRecursion /\ count_ = Len(scopes))
        /\ aborted => count_ = kMaxRecursion)
  /\ [][/\ last'.op = "ContextScope" =>
             /\ count_' = count_ + 1
             /\ aborted' = (count_ + 1 = kMaxRecursion)
             /\ ~aborted' => scopes' = Append(scopes, count_)
        /\ last'.op = "~ContextScope" =>
             /\ count_' = count_ - 1
             /\ count_' = scopes[Len(scopes)]
             /\ scopes' = SubSeq(scopes, 1, Len(scopes) - 1)
             /\ ~aborted'
        /\ last'.op \notin {"ContextScope", "~ContextScope"} =>
             /\ count_' = count_ /\ scopes' = scopes /\ aborted' = aborted
        /\ ~aborted]_vars

\* A fifth helper is entered after instructions were emitted under four.
C20_Witness ==
  /\ aborted
  /\ Len(scopes) = kMaxRecursion - 1
  /\ cursor > 0

(***************************************************************************)
(* C18: jump-table finalization binds the default label at the             *)
(* finalization point if it was never bound, binds the end label, and then *)
(* writes the encoded offset of the default label into every slot whose    *)
(* presence bit is not set, while the slots whose bit is set keep the      *)
(* offset of their own case; consequently, in a table of N cases where     *)
(* case k was never bound, dispatching with index k reaches the default    *)
(* label, for every N and every k in [0, N).                               *)
(***************************************************************************)
\* The cases of the table that were never bound.
Absent == (0..(table.length_ - 1)) \ table.presence_

C18_AbsentCaseReachesDefault ==
  table.phase = "final" =>
    /\ labels[DefaultLabel].bound /\ labels[EndLabel].bound
    /\ \A k \in Absent : DispatchTarget(table, t32, k) = table.default_location
    /\ \A k \in table.presence_ : DispatchTarget(table, t32, k) = table.cases[k + 1]

\* What finalization does, whatever the dispatch then makes of the slots:
\* the two binds, and one store of the encoded offset of the default label
\* per absent case, the other slots being left as they are.
C18_FinalizeLinksAbsentCases ==
  [][last'.op = "EndSwitch" =>
       LET enc(location) ==
             StoreAs((location - table.branch_location_) \div (IF t32 THEN 2 ELSE 4),
                     table.offset_size)
       IN  /\ labels'[DefaultLabel].bound /\ labels'[EndLabel].bound
           /\ table'.end_location = cursor
           /\ table'.default_location
                = IF labels[DefaultLabel].bound THEN table.default_location ELSE cursor
           /\ \A k \in 0..(table.length_ - 1) :
                table'.slots[k + 1]
                  = IF k \in table.presence_ THEN table.slots[k + 1]
                    ELSE enc(table'.default_location)
           /\ \A k \in table.presence_ : table.slots[k + 1] = enc(table.cases[k + 1])
           /\ Len(Events("Link")') = Cardinality(Absent)
           /\ \A i \in DOMAIN Events("Link")' :
                LET e == Events("Link")'[i]
                IN  /\ e.case \in Absent
                    /\ e.location = table'.default_location
                    /\ e.position = table.table_location_ + e.case * table.offset_size
           /\ cursor' = cursor
           /\ table'.presence_ = table.presence_]_vars

\* A table of two cases is finalized with one case bound, one absent and the
\* default label never bound.
C18_Witness ==
  /\ last.op = "EndSwitch"
  /\ table.length_ = 2
  /\ Cardinality(table.presence_) = 1
  /\ table.default_location = cursor
  /\ table.default_location > table.branch_location_ + 255 * 2

(***************************************************************************)
(* C21: when a UseScratchRegisterScope ends, the core and the VFP scratch  *)
(* lists of the MacroAssembler are exactly what they were when that scope  *)
(* was opened, whatever Acquire, Release, Include, Exclude, ExcludeAll and *)
(* direct modifications happened in between; with nested scopes, closing   *)
(* the inner scope restores the lists found at the inner scope's opening.  *)
(***************************************************************************)
\* The Close of the last entry point, if it made one.
Closing == Events("Close")

C21_ScopeRestoresLists ==
  /\ [](\A k \in DOMAIN temps :
          /\ temps[k].available_ = temps[k].available_vfp_
          /\ IsOpen(temps[k]) =>
               /\ temps[k].old_available_ = temps[k].entry.core
               /\ temps[k].old_available_vfp_ = temps[k].entry.vfp)
  /\ [][\A i \in DOMAIN Closing' :
          Closing'[i].open =>
            /\ available_' = temps[Closing'[i].scope].entry.core
            /\ available_vfp_' = temps[Closing'[i].scope].entry.vfp]_vars

\* The inner of two scopes ends after the lists were modified, and the
\* lists it restores are not those the outer scope saved.
C21_Witness ==
  /\ last.op = "~UseScratchRegisterScope"
  /\ Closing[1].open
  /\ Closing[1].scope = 2
  /\ Closing[1].stale
  /\ IsOpen(temps[1])
  /\ <<available_, available_vfp_>>
       # <<temps[1].old_available_, temps[1].old_available_vfp_>>

(***************************************************************************)
(* C22: UseScratchRegisterScope::Close succeeds on a scope that was never  *)
(* opened, leaving the lists unchanged, and is idempotent: a second Close, *)
(* the destructor's after an explicit Close included, does not change the  *)
(* lists again, even if they were modified after the first Close.          *)
(***************************************************************************)
C22_CloseIdempotent ==
  [][\A i \in DOMAIN Closing' :
       ~Closing'[i].open =>
         /\ available_' = available_
         /\ available_vfp_' = available_vfp_
         /\ \A k \in DOMAIN temps' : temps'[k] = temps[k]]_vars

\* The destructor runs on a scope that was closed before, after the lists
\* were given other values than the scope had saved.
C22_Witness ==
  /\ last.op = "~UseScratchRegisterScope"
  /\ ~Closing[1].open
  /\ Closing[1].ever
  /\ Closing[1].stale

(***************************************************************************)
(* C23: between the construction and the destruction of an                 *)
(* AssemblerAccurateScope of size s no literal pool and no veneer is       *)
(* emitted (pools can only be emitted by the EnsureEmitFor(s) of the       *)
(* construction), macro instructions are disallowed, and at destruction    *)
(* the bytes emitted inside the scope are s under kExactSize and at most s *)
(* under kMaximumSize; the destruction gives the allow-macro-instructions  *)
(* flag the value it had before the scope, also for nested scopes.         *)
(***************************************************************************)
\* Whether the last entry point emitted a pool.
EmittedPool == HasPool(out)

\* What holds of the flag and of the sizes, in a debug build.
AccurateScopeChecks ==
  /\ [](~aborted => (allow_macro_instructions_ <=> accurate = <<>>))
  /\ [][(last'.op = "~AssemblerAccurateScope" /\ ~aborted') =>
          LET scope == accurate[Len(accurate)]
              emitted == cursor - scope.initial_cursor_offset_
          IN  /\ scope.assert_policy_ = "kExactSize" => emitted = scope.size_
              /\ scope.assert_policy_ = "kMaximumSize" => emitted <= scope.size_
              /\ scope.assert_policy_ # "kNoAssert"
              /\ accurate' = SubSeq(accurate, 1, Len(accurate) - 1)
              /\ allow_macro_instructions_' = (Len(accurate) = 1)]_vars

C23_NoPoolInsideScope ==
  /\ AccurateScopeChecks
  /\ [][accurate # <<>> => ~EmittedPool']_vars
  /\ [](\A k \in DOMAIN accurate : ~accurate[k].pools)

\* A scope inside which a veneer or a literal pool was emitted ends with its
\* assertion passing.
C23_Witness ==
  /\ last.op = "~AssemblerAccurateScope"
  /\ ~aborted
  /\ Events("~CodeBufferCheckScope")[1].pools

(***************************************************************************)
(* C24: in every reachable state of a LiteralPool the reported size is the *)
(* sum of the aligned sizes of the literals in the pool, the literals are  *)
(* held in insertion order (a step leaves the list as it is, appends one   *)
(* literal at its tail, or empties it first), and the position AddLiteral  *)
(* stamps on a literal is the sum of the aligned sizes of the literals     *)
(* inserted before it since the last Clear.                                *)
(***************************************************************************)
RECURSIVE AlignedSizes(_)
AlignedSizes(lits) ==
  IF lits = <<>> THEN 0
  ELSE GetAlignedSize(Head(lits)) + AlignedSizes(Tail(lits))

\* The literals of a list, by identity.
Ids(lits) == [i \in DOMAIN lits |-> lits[i].id]

\* Where a literal was inserted last.
LastIndex(lits, id) ==
  CHOOSE i \in DOMAIN lits :
    lits[i].id = id /\ \A j \in DOMAIN lits : lits[j].id = id => j <= i

PoolSizeIsSum == size_ = AlignedSizes(pool)

PositionIsSumBefore ==
  \A i \in DOMAIN pool :
    pool[i].position =
      AlignedSizes(SubSeq(pool, 1, LastIndex(pool, pool[i].id) - 1))

InsertionOrder ==
  \/ Ids(pool') = Ids(pool)
  \/ Len(pool') = Len(pool) + 1 /\ SubSeq(Ids(pool'), 1, Len(pool)) = Ids(pool)
  \/ Len(pool') <= 1 /\ Happened("EmitLiteralPool")'

AddLiteralReturnsSize ==
  \A i \in DOMAIN Events("AddLiteral")' :
    /\ Events("AddLiteral")'[i].position = AlignedSizes(pool)
    /\ pool'[Len(pool')].id = Events("AddLiteral")'[i].id
    /\ pool'[Len(pool')].position = AlignedSizes(pool)

C24_PoolSizeAndPositions ==
  /\ [](PoolSizeIsSum /\ PositionIsSumBefore)
  /\ [][InsertionOrder /\ AddLiteralReturnsSize]_vars

\* The program added a literal of one byte behind two others.
C24_Witness ==
  /\ last.op = "AddLiteral"
  /\ Len(pool) = 3
  /\ pool[3].size = 1
  /\ pool[3].position = 12

(***************************************************************************)
(* C26: destroying a literal pool that still holds a literal or has a      *)
(* non-zero size is a fatal assertion (the process aborts, nothing is      *)
(* deleted and the pool is not destroyed); after FinalizeCode or           *)
(* EmitLiteralPool the pool holds no literal and its size is 0, it stays   *)
(* so until the next literal is loaded or added, and the destructor then   *)
(* runs to its end.                                                        *)
(***************************************************************************)
PoolIsEmpty == pool = <<>> /\ size_ = 0

DestroyingNonEmptyAborts ==
  last'.op = "~MacroAssembler" =>
    IF PoolIsEmpty
    THEN destroyed' /\ ~aborted' /\ keep_until_delete_' = <<>>
    ELSE /\ aborted' /\ ~destroyed'
         /\ Happened("VIXL_ASSERT")'
         /\ UNCHANGED <<pool, size_, keep_until_delete_, deleted>>

FlushEmptiesPool ==
  (last'.op \in {"FinalizeCode", "EmitLiteralPool"} /\ ~aborted') => PoolIsEmpty'

StaysEmpty ==
  (PoolIsEmpty /\ last'.op \notin {"Ldr", "AddLiteral"}) => PoolIsEmpty'

C26_DestructorPrecondition ==
  [][DestroyingNonEmptyAborts /\ FlushEmptiesPool /\ StaysEmpty]_vars

\* The assembler was destroyed with two literals in its pool.
C26_Witness ==
  /\ last.op = "~MacroAssembler"
  /\ aborted
  /\ Len(pool) = 2

(***************************************************************************)
(* C27: each literal is destroyed according to its deletion policy and     *)
(* never more than once: a flush deletes the deleted-on-placement literals *)
(* it places, a deleted-on-pool-teardown literal survives every flush and  *)
(* is deleted when the pool is destroyed, and a caller-owned literal is    *)
(* never deleted by the pool.  (Debug build: placing a literal that is     *)
(* bound already aborts the process.)                                      *)
(***************************************************************************)
\* The deletion policy a literal was constructed with.
PolicyOf(id) ==
  IF id \in UserLitIds
  THEN UserLiterals[((id - 101) % Len(UserLiterals)) + 1][2]
  ELSE "kDeletedOnPlacementByPool"

NeverDeletedTwice == \A id \in LitIds : deleted[id] <= 1

DeletedPerPolicy ==
  /\ \A id \in LitIds :
        /\ PolicyOf(id) = "kManuallyDeleted" => deleted'[id] = 0
        /\ (PolicyOf(id) = "kDeletedOnPoolDestruction" /\ ~destroyed')
             => deleted'[id] = 0
  /\ Happened("EmitLiteralPool")' =>
        \A i \in DOMAIN pool :
          /\ pool[i].deletion_policy = "kDeletedOnPlacementByPool"
               => deleted'[pool[i].id] > deleted[pool[i].id]
          /\ pool[i].deletion_policy = "kDeletedOnPoolDestruction"
               => \E k \in DOMAIN keep_until_delete_' :
                    keep_until_delete_'[k] = pool[i].id
  /\ destroyed' /\ ~destroyed =>
        \A k \in DOMAIN keep_until_delete_ :
          deleted'[keep_until_delete_[k]] > deleted[keep_until_delete_[k]]

PendingWithinRange ==
  \A i \in DOMAIN pool :
    /\ Len(pool[i].refs) = 1
    /\ cursor - pool[i].refs[1].loc <= pool[i].refs[1].range
    /\ cursor <= pool[i].refs[1].checkpoint

PlacedWithinRange ==
  \A p \in placed :
    /\ Len(p.refs) = 1
    /\ p.offset > p.refs[1].loc
    /\ p.offset <= p.refs[1].checkpoint

EveryConstantKept ==
  \A id \in 1..nlit : (id \in bound_literals) # (PoolIndex(St, id) # 0)

C25_LoadsFlushedInRange ==
  PendingWithinRange /\ PlacedWithinRange /\ EveryConstantKept

\* The guard of a load flushed a pool of three constants.
C25_Witness ==
  /\ last.op = "Ldr"
  /\ Happened("PerformEnsureEmit")
  /\ Cardinality(placed) >= 3

(***************************************************************************)
(* C28: a jump table of length N accepts a case index only in [0, N).      *)
(* GetLocationForCase(i) and SetPresenceBitForCase(i) with i < 0 or        *)
(* i >= N fail an assertion and leave the table as it was; for i in        *)
(* [0, N) GetLocationForCase(i) is table_location + i * entry_width, an    *)
(* entry inside the GetTableSizeInBytes() = N * entry_width bytes of the   *)
(* table, and SetPresenceBitForCase(i) marks i and nothing else.           *)
(***************************************************************************)
\* The index the last entry point was called with.
AskedLocation == Events("GetLocationForCase") \o Events("SetPresenceBitForCase")

LocationInsideTable ==
  last'.op = "GetLocationForCase" =>
    /\ table' = table
    /\ IF aborted'
       THEN \E e \in {Events("VIXL_ASSERT")'[1]} :
              (e.i < 0 \/ e.i >= table.length_) /\ AskedLocation' = <<>>
       ELSE \E e \in {Events("GetLocationForCase")'[1]} :
              /\ e.i >= 0 /\ e.i < table.length_
              /\ e.location = table.table_location_ + e.i * table.offset_size
              /\ e.location >= table.table_location_
              /\ e.location + table.offset_size
                   <= table.table_location_ + GetTableSizeInBytes(St)
              /\ GetTableSizeInBytes(St) = table.length_ * table.offset_size

PresenceOnlyInsideTable ==
  last'.op = "SetPresenceBitForCase" =>
    IF aborted'
    THEN /\ table' = table
         /\ \E e \in {Events("VIXL_ASSERT")'[1]} : e.i < 0 \/ e.i >= table.length_
    ELSE \E e \in {Events("SetPresenceBitForCase")'[1]} :
           /\ e.i >= 0 /\ e.i < table.length_
           /\ table' = [table EXCEPT !.presence_ = @ \cup {e.i}]

C28_CaseIndexChecked ==
  /\ [][LocationInsideTable /\ PresenceOnlyInsideTable]_vars
  /\ [](table.presence_ \subseteq 0..(table.length_ - 1))

\* The program asked a table of two cases for the location of case 2.
C28_Witness ==
  /\ last.op = "GetLocationForCase"
  /\ aborted
  /\ table.length_ = 2
  /\ Events("VIXL_ASSERT")[1].i = 2

(***************************************************************************)
(* C29: a non-empty literal pool is emitted as a whole and in insertion    *)
(* order.  With kBranchRequired an unconditional branch comes first, then  *)
(* the cursor is aligned to 4 bytes, then every literal is placed at       *)
(* pool_start + its position in the pool, on a 32-bit boundary, then the   *)
(* branch is bound right behind the last literal, then the pool is         *)
(* cleared; with kNoBranchRequired there is no branch.  An entry point     *)
(* that places one literal of the pool and returns places them all.        *)
(***************************************************************************)
\* The literals the entry point in progress wrote to the buffer.
Written == ItemsOf(out, "literal")

\* The options of the pools the entry point in progress emitted.
Options == {Events("EmitLiteralPool")[i].option : i \in DOMAIN Events("EmitLiteralPool")}

\* The pool the step emitted began at offset start with option o.
EmittedWhole(start, o) ==
  LET branch == o = "kBranchRequired"
      pool_start == AlignUp(start + (IF branch THEN kMaxInstructionSizeInBytes ELSE 0), 4)
  IN  /\ Ids(Written') = Ids(pool)
      /\ \A i \in DOMAIN pool :
            /\ Written'[i].off = pool_start + pool[i].position
            /\ Written'[i].off % 4 = 0
            /\ Written'[i].size = GetAlignedSize(pool[i])
            /\ \E p \in placed' : p.id = pool[i].id /\ p.offset = Written'[i].off
      /\ IF branch
         THEN /\ \E i \in DOMAIN out' :
                   /\ out'[i].kind = "b_after_literal" /\ out'[i].off = start
                   /\ \A j \in DOMAIN out' : out'[j].kind = "literal" => i < j
              /\ Len(Events("bind")') = 1
              /\ Events("bind")'[1].from = start
              /\ Events("bind")'[1].target = pool_start + size_
         ELSE /\ ItemsOf(out', "b_after_literal") = <<>>
              /\ Events("bind")' = <<>>
      /\ PoolIds(pool') \cap PoolIds(pool) = {}
      /\ size_' = AlignedSizes(pool')

PoolEmittedWhole ==
  /\ (Written' # <<>> \/ placed' # {}) =>
        /\ pool # <<>>
        /\ Cardinality({p.start : p \in placed'}) = 1
        /\ Cardinality(Options') = 1
        /\ \A p \in placed' : \A o \in Options' : EmittedWhole(p.start, o)
  /\ (last'.op \in {"EmitLiteralPool", "FinalizeCode"} /\ pool # <<>>) =>
        /\ Written' # <<>>
        /\ \A p \in placed' : p.start = cursor
        /\ pool' = <<>> /\ size_' = 0
  /\ last'.op = "FinalizeCode" => Options' \subseteq {"kNoBranchRequired"}

C29_PoolEmittedWhole == [][~aborted' => PoolEmittedWhole]_vars

\* An explicit flush with a branch placed two literals behind padding.
C29_Witness ==
  /\ last.op = "EmitLiteralPool"
  /\ Options = {"kBranchRequired"}
  /\ Len(Written) = 2
  /\ \E i \in DOMAIN out : out[i].kind = "pad"

(***************************************************************************)
(* C30: IsInsertTooFar never under-estimates.  It answers true exactly     *)
(* when AlignDown(min(from + the literal's last forward distance, the      *)
(* literal's checkpoint), 4) < from + the size of the pool +               *)
(* kMaxInstructionSizeInBytes; and whenever it answered false, emitting    *)
(* right behind the load the branch over the pool, the padding and the     *)
(* whole pool with the literal at its end places the literal at an offset  *)
(* that is neither beyond from + its last forward distance nor beyond its  *)
(* checkpoint.                                                             *)
(***************************************************************************)
\* The verdict, from the arguments of the call alone.
TooFar(e) ==
  LET nearer == IF e.from + e.distance < e.literal_checkpoint
                THEN e.from + e.distance ELSE e.literal_checkpoint
  IN  nearer - (nearer % 4) < e.from + e.pool_size + kMaxInstructionSizeInBytes

\* The offsets the literal would get if the pool were emitted now, behind a
\* branch.
WouldPlace(id) ==
  {p.offset : p \in {q \in EmitLiteralPool(St, "kBranchRequired").placed : q.id = id}}

\* The literal is the last one of the pending pool.
LastPending(id) == pool # <<>> /\ pool[Len(pool)].id = id

C30_NeverUnderEstimates ==
  \A i \in DOMAIN Events("GenerateInstruction") :
    LET e == Events("GenerateInstruction")[i]
    IN  /\ e.retry = TooFar(e)
        /\ ~e.retry =>
              /\ LastPending(e.id)
              /\ WouldPlace(e.id) # {}
              /\ \A offset \in WouldPlace(e.id) :
                    /\ offset <= e.from + e.distance
                    /\ offset <= e.literal_checkpoint

\* A load kept its literal pending behind an earlier one, and a pool
\* emitted now would place it on the last word its load can reach.
C30_Witness ==
  /\ last.op = "Ldr"
  /\ \E i \in DOMAIN Events("GenerateInstruction") :
       LET e == Events("GenerateInstruction")[i]
       IN  /\ ~e.retry
           /\ e.pool_size > 0
           /\ AlignDown(e.from + e.distance, 4) \in WouldPlace(e.id)

(***************************************************************************)
(* C31: between two resets the checkpoint cached by the literal-pool       *)
(* manager never increases; after every UpdateCheckpoint(literal) it is    *)
(* not greater than the literal's checkpoint aligned down to 4 minus the   *)
(* literal's position in the pool, so that it is the minimum of that       *)
(* quantity over the literals registered since the last flush; and         *)
(* UpdateCheckpoint calls ComputeCheckpoint exactly when the cached value  *)
(* strictly decreased.                                                     *)
(***************************************************************************)
\* What a pending literal asks of the cached checkpoint.
Asked(literal) == AlignDown(literal.checkpoint, 4) - literal.position

\* The nearest of what the first n pending literals ask.
RECURSIVE NearestAsked(_)
NearestAsked(n) ==
  IF n = 0 THEN kMaxOffset ELSE Min(Asked(pool[n]), NearestAsked(n - 1))

CachedIsNearest == lp_checkpoint = NearestAsked(Len(pool))

\* The step reset the cached checkpoint: it emitted the literal pool.
ResetInStep ==
  \/ last'.op \in {"EmitLiteralPool", "FinalizeCode"}
  \/ Happened("PerformEnsureEmit")'
  \/ Retried'

NoIncreaseBetweenResets == ~ResetInStep => lp_checkpoint' <= lp_checkpoint

RecomputedWhenDecreased ==
  \A i \in DOMAIN last.trace :
    last.trace[i].ev = "UpdateCheckpoint" =>
      /\ lp_checkpoint <= Asked(pool[PoolIndex(St, last.trace[i].id)])
      /\ lp_checkpoint <= last.trace[i].before
      /\ FollowedBy(i, "ComputeCheckpoint") <=> lp_checkpoint < last.trace[i].before

Occurrences(lits, id) == Cardinality({i \in DOMAIN lits : lits[i].id = id})

OncePerLiteral == \A i \in DOMAIN pool : Occurrences(pool, pool[i].id) = 1

\* The checkpoint of a pending literal is the nearest of its references'.
CheckpointRefreshed ==
  \A i \in DOMAIN pool :
    /\ pool[i].position # kMaxOffset
    /\ \A r \in DOMAIN pool[i].refs : pool[i].checkpoint <= pool[i].refs[r].checkpoint
    /\ pool[i].refs # <<>> =>
         \E r \in DOMAIN pool[i].refs : pool[i].checkpoint = pool[i].refs[r].checkpoint

\* Every call of GenerateInstruction ended in UpdateCheckpoint of its
\* literal, whose assertion held.
UpdatedOnEveryCall ==
  /\ ~aborted
  /\ Len(Events("UpdateCheckpoint")) = Len(Events("GenerateInstruction"))
  /\ \A i \in DOMAIN Events("GenerateInstruction") :
       Events("UpdateCheckpoint")[i].id = Events("GenerateInstruction")[i].id

\* A call adds the literal exactly when the pool it found, or the pool the
\* retry emptied, does not hold it.
AddedOnFirstAppearance ==
  \A i \in DOMAIN Events("GenerateInstruction")' :
    LET e == Events("GenerateInstruction")'[i]
        now == Occurrences(pool', e.id)
    IN  IF e.id \in bound_literals' THEN now = 0
        ELSE /\ now = 1
             /\ Occurrences(pool, e.id) <= 1

C32_AddedOnceAndRefreshed ==
  /\ [](OncePerLiteral /\ CheckpointRefreshed /\ UpdatedOnEveryCall)
  /\ [][AddedOnFirstAppearance]_vars

\* A second load from a pending literal went through without a retry: the
\* pool holds the literal once, with both references.
C32_Witness ==
  /\ last.op = "Ldr"
  /\ ~Retried
  /\ \E i \in DOMAIN pool :
       /\ pool[i].id \in UserLitIds
       /\ Len(pool[i].refs) = 2
       /\ pool[i].id = Events("UpdateCheckpoint")[1].id

(***************************************************************************)
(* C33: jump-table offsets round-trip for every entry width (1, 2 and 4    *)
(* bytes) and both instruction sets.  Link stores at table_location +      *)
(* case_index * entry_width the value (destination - branch_location)      *)
(* shifted right by 1 in T32 and by 2 in A32, and for every destination,   *)
(* also one whose offset does not fit the entry width, branch_location +   *)
(* (the stored entry shifted left by the same amount) is the destination.  *)
(***************************************************************************)
\* The slots Link wrote in the last entry point.
Linked == Events("Link")

C33_OffsetsRoundTrip ==
  \A i \in DOMAIN Linked :
    LET e == Linked[i]
        shift == IF t32 THEN 1 ELSE 2
    IN  /\ e.position = table.table_location_ + e.case * table.offset_size
        /\ table.branch_location_ + table.slots[e.case + 1] * (2 ^ shift) = e.location

\* Link wrote the slot of a case bound behind the dispatch.
C33_Witness ==
  /\ last.op = "Case"
  /\ Len(Linked) = 1
  /\ Linked[1].location > table.branch_location_

(***************************************************************************)
(* C34: over the life of one jump table (Switch, any number of Case and    *)
(* Default, EndSwitch) the table location and the location of the          *)
(* dispatch branch are each assigned once and never change afterwards; a   *)
(* presence bit is set only for a slot attached to an emitted case and is  *)
(* never cleared; and no entry of the table is written before the          *)
(* destination it encodes is known.                                        *)
(***************************************************************************)
\* Both locations are unknown until Switch assigns them, and fixed after.
LocationsFixedOnce ==
  /\ (table'.table_location_ # table.table_location_
        \/ table'.branch_location_ # table.branch_location_) =>
       /\ last'.op = "Switch"
       /\ table.table_location_ = kMaxOffset /\ table.branch_location_ = kMaxOffset
       /\ table'.table_location_ # kMaxOffset /\ table'.branch_location_ # kMaxOffset
  /\ last'.op = "Switch" =>
       /\ table'.branch_location_ + kMaxInstructionSizeInBytes - PcOffset(t32)
            = table'.table_location_
       /\ table'.table_location_ + AlignUp(table'.length_ * table'.offset_size, 4)
            = cursor'

\* A bit appears with the Case that linked its slot to the cursor, and stays.
PresenceFollowsCases ==
  /\ table.presence_ \subseteq table'.presence_
  /\ table'.presence_ \subseteq 0..(table'.length_ - 1)
  /\ \A k \in table'.presence_ \ table.presence_ :
       /\ last'.op = "Case"
       /\ \E i \in DOMAIN Linked' : Linked'[i].case = k /\ Linked'[i].location = cursor
       /\ table'.cases[k + 1] = cursor
  /\ last'.op = "Case" => Cardinality(table'.presence_ \ table.presence_) = 1

\* A slot changes only through Link, with a destination that is known: the
\* cursor at which the case begins, or the location of the bound default
\* label.
EntriesAfterDestinations ==
  /\ \A k \in DOMAIN table.slots :
       table'.slots[k] # table.slots[k] =>
         \E i \in DOMAIN Linked' : Linked'[i].case = k - 1
  /\ \A i \in DOMAIN Linked' :
       LET e == Linked'[i]
       IN  /\ table.table_location_ # kMaxOffset
           /\ table.branch_location_ # kMaxOffset
           /\ e.location <= cursor'
           /\ IF last'.op = "Case" THEN e.location = cursor
              ELSE /\ last'.op = "EndSwitch"
                   /\ labels'[DefaultLabel].bound
                   /\ e.location = table'.default_location

C34_TableLifeCycle ==
  [][LocationsFixedOnce /\ PresenceFollowsCases /\ EntriesAfterDestinations]_vars

\* A table of two cases was finalized with one case emitted: both
\* locations as Switch left them, one slot linked by EndSwitch.
C34_Witness ==
  /\ last.op = "EndSwitch"
  /\ table.length_ = 2
  /\ Cardinality(table.presence_) = 1
  /\ Len(Linked) = 1
  /\ table.table_location_ # kMaxOffset

(***************************************************************************)
(* C35: after any sequence of macro branches, Bind calls and flushes,      *)
(* every label held in the veneer pool is unbound and has its              *)
(* in-veneer-pool flag set, and every label whose flag is set is in the    *)
(* pool; AddBranchLabel ignores a label that is already bound, and Bind    *)
(* removes the label from the pool when its flag is set.                   *)
(***************************************************************************)
\* The labels the veneer pool holds.
InVeneerPool == {veneer_labels[i] : i \in DOMAIN veneer_labels}

PoolLabelsPending ==
  /\ \A l \in InVeneerPool : ~labels[l].bound /\ labels[l].in_veneer_pool
  /\ \A l \in DOMAIN labels : labels[l].in_veneer_pool => l \in InVeneerPool
  /\ Cardinality(InVeneerPool) = Len(veneer_labels)

\* A macro branch to a bound label leaves the pool as it is, unless its
\* guard flushed it.
BoundLabelIgnored ==
  \A l \in DOMAIN labels :
    (last'.op = "B" /\ labels[l].bound) =>
      /\ l \notin {veneer_labels'[i] : i \in DOMAIN veneer_labels'}
      /\ ~labels'[l].in_veneer_pool
      /\ ~\E i \in DOMAIN last'.trace :
            last'.trace[i].ev = "AddLabel" /\ last'.trace[i].label = l

\* Bind of a pending label removes it, and it alone.
BindRemovesLabel ==
  \A l \in DOMAIN labels :
    (last'.op = "Bind" /\ ~labels[l].bound /\ labels'[l].bound) =>
      /\ ~labels'[l].in_veneer_pool
      /\ veneer_labels' = SelectSeq(veneer_labels, LAMBDA x : x # l)

C35_VeneerPoolMembership ==
  /\ []PoolLabelsPending
  /\ [][BoundLabelIgnored /\ BindRemovesLabel]_vars

\* A macro branch went back to a bound label while the other label is
\* pending in the pool.
C35_Witness ==
  /\ last.op = "B"
  /\ \E l \in DOMAIN labels :
       /\ labels[l].bound
       /\ \E i \in DOMAIN out : out[i].kind = "b" /\ out[i].id = l
  /\ veneer_labels # <<>>

(***************************************************************************)
(* C36: EmitLiteralPool on an empty pool (size 0) emits no byte at all,    *)
(* with either option: no branch, no padding, the cursor stays where it    *)
(* is.  It still resets the checkpoint of the literal-pool manager to the  *)
(* sentinel and recomputes the checkpoint of the assembler.                *)
(***************************************************************************)
\* The calls of EmitLiteralPool(option) the program made in the last step.
Flushes == Events("EmitLiteralPool(option)")

EmptyFlushEmitsNothing ==
  (last'.op = "EmitLiteralPool" /\ size_ = 0) =>
     /\ cursor' = cursor
     /\ out' = <<>> /\ placed' = {} /\ links' = {}
     /\ pool' = pool /\ size_' = 0
     /\ labels' = labels /\ veneer_labels' = veneer_labels
     /\ vp_checkpoint' = vp_checkpoint
     /\ lp_checkpoint' = kMaxOffset
     /\ Happened("ComputeCheckpoint")'
     /\ ~Happened("EmitLiteralPool")'
     /\ checkpoint_' = Min(kMaxOffset - kMaxInstructionSizeInBytes,
                           vp_checkpoint - kMaxInstructionSizeInBytes)

C36_EmptyFlush == [][EmptyFlushEmitsNothing]_vars

\* An empty pool was flushed without a branch while the manager still
\* cached the checkpoint of a literal placed before: the cached checkpoint
\* is the sentinel again.
C36_Witness ==
  /\ last.op = "EmitLiteralPool"
  /\ Len(Flushes) = 1
  /\ Flushes[1].size = 0
  /\ Flushes[1].option = "kNoBranchRequired"
  /\ Flushes[1].checkpoint < kMaxOffset
  /\ lp_checkpoint = kMaxOffset
  /\ out = <<>>

(***************************************************************************)
(* C37: on the branch path of ITScope no literal pool and no veneer pool   *)
(* is emitted between the narrow branch and the bind of its local label,   *)
(* when the wrapped instruction emits at most                              *)
(* kMaxT32MacroInstructionSizeInBytes: nothing from the branch on belongs  *)
(* to a pool, no forced flush follows the construction of the scope, and   *)
(* the room reserved before the branch is such that EnsureEmitFor, asked   *)
(* at any cursor of the wrapped region for a size that stays within the    *)
(* region, does not flush either.                                          *)
(***************************************************************************)
\* The index of the first event of the kind in the trace of the operation.
FirstEvent(kind) ==
  CHOOSE i \in DOMAIN last.trace :
    /\ last.trace[i].ev = kind
    /\ \A j \in 1..(i - 1) : last.trace[j].ev # kind

\* Nothing of a pool lies at or after the narrow branch.
NoPoolAfterBranch ==
  LET b == ItemsOf(out, "b_narrow")[1]
  IN  \A i \in DOMAIN out : out[i].off >= b.off => out[i].kind \notin PoolKinds

\* No forced flush after the scope has been constructed.
NoFlushInsideScope ==
  \A i \in DOMAIN last.trace :
    i > FirstEvent("ITScope") => last.trace[i].ev # "PerformEnsureEmit"

\* EnsureEmitFor at cursor `at' for `size' bytes passes the guard of
\* EnsureEmitFor under the checkpoint the scope has left.
PassesGuard(at, size) == AlignUp(at + size, 4) < ScopeEnd.checkpoint_

\* Every guard that stays within the wrapped region passes.
RoomReserved ==
  LET initial == ScopeEnd.cursor - ScopeEnd.wrapped
      limit == initial + kMaxT32MacroInstructionSizeInBytes
  IN  \A at \in initial..limit : \A size \in 0..(limit - at) : PassesGuard(at, size)

C37_NoPoolInsideScope ==
  (last.op = "Adc" /\ ~aborted /\ ScopeEnd.branched
   /\ ScopeEnd.wrapped <= kMaxT32MacroInstructionSizeInBytes) =>
    /\ NoPoolAfterBranch
    /\ NoFlushInsideScope
    /\ Scope.checkpoint_ = ScopeEnd.checkpoint_
    /\ RoomReserved
    /\ \A size \in 0..(kMaxT32MacroInstructionSizeInBytes - ScopeEnd.wrapped) :
         EnsureEmitFor(St, size).cursor = cursor

\* The guard of the scope itself forces a flush of a literal pool and of a
\* veneer before the branch, and the wrapped instruction is a 32-bit one.
C37_Witness ==
  /\ last.op = "Adc"
  /\ ~aborted
  /\ ScopeEnd.branched
  /\ ScopeEnd.wrapped = kMaxInstructionSizeInBytes
  /\ Len(Events("EnsureEmitFor")) = 2
  /\ ~Events("EnsureEmitFor")[1].flush
  /\ Events("EnsureEmitFor")[2].flush
  /\ ItemsOf(out, "literal") # <<>>
  /\ ItemsOf(out, "veneer") # <<>>

(***************************************************************************)
(* C38: when no obligation is pending (the literal pool is empty and the   *)
(* veneer pool holds no label), EnsureEmitFor(size) passes its guard for   *)
(* every size that fits in the buffer: it forces no flush, emits nothing   *)
(* and leaves the cursor and the checkpoint as they were.                  *)
(***************************************************************************)
\* Sizes a caller may ask for, up to a megabyte.
GuardSizes == {0, k16BitT32InstructionSizeInBytes, kMaxInstructionSizeInBytes,
               2 * kMaxInstructionSizeInBytes, 1024, 1048576}

\* Neither pool holds anything.
NoObligation == pool = <<>> /\ veneer_labels = <<>>

\* What EnsureEmitFor(size) does in the present state.
Guarded(size) == EnsureEmitFor(St, size)

C38_NothingToFlush ==
  (NoObligation /\ ~aborted) =>
    \A size \in GuardSizes :
      /\ AlignUp(cursor + size, 4) < checkpoint_
      /\ \A i \in DOMAIN Guarded(size).trace :
           /\ Guarded(size).trace[i].ev # "PerformEnsureEmit"
           /\ Guarded(size).trace[i].ev = "EnsureEmitFor" => ~Guarded(size).trace[i].flush
      /\ Guarded(size).out = <<>>
      /\ Guarded(size).cursor = cursor
      /\ Guarded(size).checkpoint_ = checkpoint_

\* The program calls EnsureEmitFor after a literal has been placed and a
\* label bound, with nothing pending any more.
C38_Witness ==
  /\ last.op = "EnsureEmitFor"
  /\ ~aborted
  /\ NoObligation
  /\ bound_literals # {}
  /\ \E l \in DOMAIN labels : labels[l].bound
  /\ Events("EnsureEmitFor")[1].size > 0
  /\ ~Events("EnsureEmitFor")[1].flush
  /\ out = <<>>

(***************************************************************************)
(* C39: a forced flush terminates and makes progress: PerformEnsureEmit is *)
(* entered once for each guard that fails, and right after                 *)
(* EnsureEmitFor(size) has performed a forced flush a second               *)
(* EnsureEmitFor(size) with the same size at the new cursor performs no    *)
(* flush and emits nothing.                                                *)
(***************************************************************************)
\* The guards of the operation that found the checkpoint too near.
FailedGuards == SelectSeq(Events("EnsureEmitFor"), LAMBDA e : e.flush)

\* One forced flush for each failed guard: the flush does not go through
\* the guard again.
FlushedOncePerGuard == Len(Events("PerformEnsureEmit")) = Len(FailedGuards)

\* Whether the guard a state has just been through found the checkpoint too near.
GuardFailed(s) == s.trace[Len(s.trace)].flush

\* EnsureEmitFor(size) in the present state and, when it performs a forced
\* flush, EnsureEmitFor(size) once more: the second call passes its guard.
SecondGuardPasses(size) ==
  \A first \in {Guarded(size)} :
    (~first.aborted /\ GuardFailed(first)) =>
      \A second \in {EnsureEmitFor(first, size)} :
        /\ ~GuardFailed(second)
        /\ second.cursor = first.cursor
        /\ second.out = first.out
        /\ second.checkpoint_ = first.checkpoint_

\* A size beyond the range of the branch of a veneer.
BeyondVeneerRange == kVeneerRange + k16BitT32InstructionSizeInBytes

====
